---- MODULE Spec2Model ----
(***************************************************************************)
(* Verification model of the two protocol bridges of pyindi-client:        *)
(*   examples/pyindi-stellarium.py  (Stellarium Telescope Control bridge)  *)
(*   examples/pyindi-synscan.py     (SynScan command bridge)               *)
(*                                                                         *)
(* Conventions.                                                            *)
(*  - A bytearray is a sequence of integers 0..255; Python index k is      *)
(*    TLA+ index k+1.  Slices follow Python's rules (PySlice,              *)
(*    PySliceAssign), including negative and out-of-range bounds.          *)
(*  - The model checker's integers are 32 bits wide, so a 4-byte wire      *)
(*    integer is held as two 16-bit limbs [hi, lo] (value hi*65536 + lo).  *)
(*  - A float that the code obtains as n * 24.0 / 2^32 or n * 360.0 / 2^32 *)
(*    from an integer n < 2^32 is exact in IEEE-754 double precision; it   *)
(*    is held as that numerator n.                                         *)
(***************************************************************************)
EXTENDS Integers, Sequences, FiniteSets, TLC

(***************************************************************************)
(* Bounds of the model (not program constants).                            *)
(***************************************************************************)
\* Stellarium connections that are ever opened.
MaxClients == 2
\* Things that ever happen on the Stellarium connections (a peer connects,
\* sends a frame or closes, a socket gets an error pending), all
\* connections together.
MaxNetEvents == 3
\* Stellarium connections that are ever opened while the INDI callbacks
\* are explored (SpecIndi).
MaxListeners == 1
\* The byte conversions are applied to the integers -MaxInt..MaxInt (and
\* to some integers near the powers of 256) with the sizes 0..MaxSize.
MaxInt == 300
MaxSize == 2

\* Iterations of the Stellarium main loop.
MaxTicks == 3
\* Failed attempts of one call of waitServer.
MaxWaits == 2
\* A short read delivers this many bytes (a read may also deliver all
\* the bytes that are available).
SplitAt == 3
\* A partial send accepts this many bytes (a send may also accept all).
PartialSend == 10
\* time.sleep(5) in waitServer
RetryDelay == 5
\* What time.time() returns, in seconds.
ClockNow == 1700000000

\* SynScan bridge: the longest chunk given to process_command, the chunks
\* per behaviour, the changes of the INDI state per behaviour and the direct
\* calls of a retry accessor per behaviour.
MaxBuf == 2
MaxChunks == 1
MaxIndiEvents == 2
MaxCalls == 4
\* The commands of one chunk given to process_command with payloads.
MaxCmds == 1


(***************************************************************************)
(* Program constants.                                                      *)
(***************************************************************************)
\* Size of StelClient.readbuf / writebuf and of the read request.
BufSize == 120
\* Length of the coordinate frame built by sendEqCoords.
EqMsgLen == 24
\* Initial status sent to the Stellarium clients.
status == 0

\* The default number of attempts of a retry accessor (ntry=5).
ntry == 5

(***************************************************************************)
(* Python sequence semantics.                                              *)
(***************************************************************************)
Zeros(n) == [k \in 1..n |-> 0]

\* slice.indices(): a bound is shifted by the length when negative and
\* clamped to 0..length.
PyIdx(len, a) ==
  IF a < 0 THEN (IF a + len < 0 THEN 0 ELSE a + len)
  ELSE (IF a > len THEN len ELSE a)

\* s[a:b]
PySlice(s, a, b) ==
  LET lo == PyIdx(Len(s), a)
      hi == PyIdx(Len(s), b)
  IN IF hi <= lo THEN <<>> ELSE SubSeq(s, lo + 1, hi)

\* s[a:]
PyFrom(s, a) == PySlice(s, a, Len(s))

\* s[a:b] = v  (the sequence is resized when Len(v) differs from the slice)
PySliceAssign(s, a, b, v) ==
  LET lo == PyIdx(Len(s), a)
      hi0 == PyIdx(Len(s), b)
      hi == IF hi0 < lo THEN lo ELSE hi0
  IN SubSeq(s, 1, lo) \o v \o SubSeq(s, hi + 1, Len(s))

RECURSIVE Flatten(_)
Flatten(ss) == IF ss = <<>> THEN <<>> ELSE Head(ss) \o Flatten(Tail(ss))

\* The elements of a finite set of integers in increasing order.
RECURSIVE SortedSeq(_)
SortedSeq(S) ==
  IF S = {} THEN <<>>
  ELSE LET m == CHOOSE x \in S : \A y \in S : x <= y
       IN <<m>> \o SortedSeq(S \ {m})

(***************************************************************************)
(* Byte conversion helpers of pyindi-stellarium.py.                        *)
(***************************************************************************)
\* to_le: b[i] = n % 256; n = n >> 8, for i = 0 .. size-1.
RECURSIVE to_le_loop(_, _, _, _)
to_le_loop(n, size, i, b) ==
  IF i < size
  THEN to_le_loop(n \div 256, size, i + 1, [b EXCEPT ![i + 1] = n % 256])
  ELSE b

to_le(n, size) == to_le_loop(n, size, 0, Zeros(size))

\* from_le: n = (n << 8) + b[i], for i = len(b)-1 down to 0.
RECURSIVE from_le_loop(_, _, _)
from_le_loop(b, i, n) ==
  IF i >= 0 THEN from_le_loop(b, i - 1, n * 256 + b[i + 1]) ELSE n

from_le(b) == from_le_loop(b, Len(b) - 1, 0)

\* to_be: b[i] = n % 256; n = n >> 8, for i = size-1 down to 0.
RECURSIVE to_be_loop(_, _, _)
to_be_loop(n, i, b) ==
  IF i >= 0
  THEN to_be_loop(n \div 256, i - 1, [b EXCEPT ![i + 1] = n % 256])
  ELSE b

\* (mutant of to_be: the bytes are written from the first index up)
to_be_up(n, size) == to_le(n, size)

to_be(n, size) == to_be_loop(n, size - 1, Zeros(size))

\* from_be: n = (n << 8) + b[i], for i = 0 .. len(b)-1.
RECURSIVE from_be_loop(_, _, _)
from_be_loop(b, i, n) ==
  IF i < Len(b) THEN from_be_loop(b, i + 1, n * 256 + b[i + 1]) ELSE n

from_be(b) == from_be_loop(b, 0, 0)

\* from_le of a slice of at most 4 bytes, as 16-bit limbs.
from_le32(b) ==
  [hi |-> from_le(PySlice(b, 2, 4)), lo |-> from_le(PySlice(b, 0, 2))]

\* to_le(n, 4) of a value held as 16-bit limbs.
to_le32(w) == to_le(w.lo, 2) \o to_le(w.hi, 2)

(***************************************************************************)
(* Python numbers.  An int n >= 0 of any size is held as its digits in     *)
(* base 2^15, least significant first and without leading zeros (<<>> is   *)
(* 0); a float is a record [neg, m, e] of value (-1)^neg * m * 2^e with    *)
(* m < 2^53 (IEEE 754 binary64; the exponents that occur are far from its  *)
(* limits).                                                                *)
(***************************************************************************)
Base == 32768

RECURSIVE BNorm(_)
BNorm(a) ==
  IF a = <<>> \/ a[Len(a)] # 0 THEN a ELSE BNorm(SubSeq(a, 1, Len(a) - 1))

RECURSIVE BOfInt(_)
BOfInt(n) == IF n = 0 THEN <<>> ELSE <<n % Base>> \o BOfInt(n \div Base)

\* the int of at most two digits
BToInt(a) ==
  (IF Len(a) >= 1 THEN a[1] ELSE 0) + (IF Len(a) >= 2 THEN Base * a[2] ELSE 0)

RECURSIVE BAddC(_, _, _)
BAddC(a, b, c) ==
  IF a = <<>> /\ b = <<>>
  THEN (IF c = 0 THEN <<>> ELSE <<c>>)
  ELSE LET x == IF a = <<>> THEN 0 ELSE Head(a)
           y == IF b = <<>> THEN 0 ELSE Head(b)
           t == x + y + c
       IN <<t % Base>> \o BAddC(IF a = <<>> THEN <<>> ELSE Tail(a),
                                IF b = <<>> THEN <<>> ELSE Tail(b),
                                t \div Base)

BAdd(a, b) == BAddC(a, b, 0)

\* a - b for a >= b
RECURSIVE BSubC(_, _, _)
BSubC(a, b, c) ==
  IF a = <<>> THEN <<>>
  ELSE LET y == IF b = <<>> THEN 0 ELSE Head(b)
           d == Head(a) - y - c
       IN <<d % Base>> \o BSubC(Tail(a), IF b = <<>> THEN <<>> ELSE Tail(b),
                                IF d < 0 THEN 1 ELSE 0)

BSub(a, b) == BNorm(BSubC(a, b, 0))

\* a * d for one digit d
RECURSIVE BMulDigit(_, _, _)
BMulDigit(a, d, c) ==
  IF a = <<>>
  THEN (IF c = 0 THEN <<>> ELSE <<c>>)
  ELSE LET t == Head(a) * d + c
       IN <<t % Base>> \o BMulDigit(Tail(a), d, t \div Base)

RECURSIVE BMul(_, _)
BMul(a, b) ==
  IF a = <<>> \/ b = <<>> THEN <<>>
  ELSE LET rest == BMul(a, Tail(b))
       IN BAdd(BNorm(BMulDigit(a, Head(b), 0)),
               IF rest = <<>> THEN <<>> ELSE <<0>> \o rest)

\* a < b
BLess(a, b) ==
  \/ Len(a) < Len(b)
  \/ /\ Len(a) = Len(b)
     /\ \E k \in 1..Len(a) :
          /\ a[k] < b[k]
          /\ \A j \in (k + 1)..Len(a) : a[j] = b[j]

\* divmod(a, d) for one digit d > 0: the long division from digit k down.
RECURSIVE BDivLoop(_, _, _, _, _)
BDivLoop(a, k, d, r, q) ==
  IF k = 0 THEN [q |-> BNorm(q), r |-> r]
  ELSE LET t == r * Base + a[k]
       IN BDivLoop(a, k - 1, d, t % d, <<t \div d>> \o q)

BDivMod(a, d) == BDivLoop(a, Len(a), d, 0, <<>>)

\* a << k and a >> k
BShl(a, k) ==
  IF a = <<>> THEN <<>>
  ELSE Zeros(k \div 15) \o BMulDigit(a, 2 ^ (k % 15), 0)
BShr(a, k) ==
  IF k \div 15 >= Len(a) THEN <<>>
  ELSE BDivMod(SubSeq(a, k \div 15 + 1, Len(a)), 2 ^ (k % 15)).q

\* a % 2^k
BLow(a, k) ==
  IF k \div 15 >= Len(a) THEN a
  ELSE BNorm(SubSeq(a, 1, k \div 15) \o <<a[k \div 15 + 1] % (2 ^ (k % 15))>>)

\* a.bit_length(), and the binary digit k (the least significant is 1)
BitLen(a) ==
  IF a = <<>> THEN 0
  ELSE 15 * (Len(a) - 1)
         + (CHOOSE n \in 1..15 : 2 ^ (n - 1) <= a[Len(a)] /\ a[Len(a)] < 2 ^ n)
Bit(a, k) ==
  IF (k - 1) \div 15 >= Len(a) THEN 0
  ELSE (a[(k - 1) \div 15 + 1] \div (2 ^ ((k - 1) % 15))) % 2

\* The float nearest to (-1)^neg * m * 2^e, a tie going to the even one.
RoundFloat(neg, m, e) ==
  IF BitLen(m) <= 53 THEN [neg |-> neg, m |-> m, e |-> e]
  ELSE LET drop == BitLen(m) - 53
           kept == BShr(m, drop)
           up   == /\ Bit(m, drop) = 1
                   /\ BLow(m, drop - 1) # <<>> \/ Bit(kept, 1) = 1
       IN [neg |-> neg, m |-> IF up THEN BAdd(kept, <<1>>) ELSE kept,
           e |-> e + drop]

\* float(n) of an int n >= 0, and the float of a small whole number.
FloatOf(n) == RoundFloat(FALSE, n, 0)
Float(k) == FloatOf(BOfInt(k))

\* a * b
FloatMul(a, b) == RoundFloat(a.neg # b.neg, BMul(a.m, b.m), a.e + b.e)

\* a / b for a divisor that is one digit times a power of two: 64 more
\* binary digits of the quotient than the divisor has, and one that tells
\* a remainder, are rounded.
FloatDiv(a, b) ==
  LET exp2 == CHOOSE k \in 0..(BitLen(b.m) - 1) :
                Bit(b.m, k + 1) = 1 /\ \A j \in 1..k : Bit(b.m, j) = 0
      d    == BToInt(BShr(b.m, exp2))
      k    == 64 + BitLen(b.m)
      qr   == BDivMod(BShl(a.m, k), d)
  IN RoundFloat(a.neg # b.neg,
                BAdd(BShl(qr.q, 1), IF qr.r = 0 THEN <<>> ELSE <<1>>),
                a.e - k - 1 - (b.e + exp2))

\* a + b
FloatAdd(a, b) ==
  LET e  == IF a.e < b.e THEN a.e ELSE b.e
      ma == BShl(a.m, a.e - e)
      mb == BShl(b.m, b.e - e)
  IN IF a.neg = b.neg THEN RoundFloat(a.neg, BAdd(ma, mb), e)
     ELSE IF BLess(ma, mb) THEN RoundFloat(b.neg, BSub(mb, ma), e)
     ELSE RoundFloat(a.neg /\ ma # mb, BSub(ma, mb), e)

\* a < 0.0
FloatIsNegative(a) == a.neg /\ a.m # <<>>

\* int(a): the digits before the point, as [neg, m].
FloatInt(a) ==
  LET m == IF a.e >= 0 THEN BShl(a.m, a.e) ELSE BShr(a.m, 0 - a.e)
  IN [neg |-> a.neg /\ m # <<>>, m |-> m]

\* int(math.floor(a))
FloatFloor(a) ==
  LET t == FloatInt(a)
      frac == a.e < 0 /\ BLow(a.m, 0 - a.e) # <<>>
  IN IF a.neg /\ frac THEN [neg |-> TRUE, m |-> BAdd(t.m, <<1>>)] ELSE t

\* to_le(n, size) of an int n = [neg, m] of any size: the bytes of
\* n mod 256^size.
to_le_int(n, size) ==
  LET low  == BLow(n.m, 8 * size)
      bits == IF n.neg /\ low # <<>>
              THEN BSub(BShl(<<1>>, 8 * size), low)
              ELSE low
  IN [k \in 1..size |-> BToInt(BLow(BShr(bits, 8 * (k - 1)), 8))]

\* The int held as 16-bit limbs.
IntOfLimbs(w) == BAdd(BOfInt(w.lo), BShl(BOfInt(w.hi), 16))

(***************************************************************************)
(* StelClient (pyindi-stellarium.py).  A client is a record                *)
(*   [readbuf, recv, writebuf, tosend, msgq].                              *)
(***************************************************************************)
\* StelClient.__init__
NewStelClient ==
  [readbuf |-> Zeros(BufSize), recv |-> 0,
   writebuf |-> Zeros(BufSize), tosend |-> 0, msgq |-> <<>>]

\* (mutant of DecIsNegative: 2^31 itself is folded)
DecIsNegative_fromHalf(w) == w.hi >= 32768

\* targetdecint > 4294967296 / 2, on limbs.
DecIsNegative(w) == w.hi > 32768 \/ (w.hi = 32768 /\ w.lo > 0)

\* The declination of a goto: targetdecint, replaced by
\* -(4294967296 - targetdecint) when it is above 2^31.  The magnitude is
\* held as limbs, the sign apart.
DecFold(w) ==
  IF DecIsNegative(w)
  THEN [neg |-> TRUE,
        hi |-> 65535 - w.hi + (IF w.lo = 0 THEN 1 ELSE 0),
        lo |-> (65536 - w.lo) % 65536]
  ELSE [neg |-> FALSE, hi |-> w.hi, lo |-> w.lo]

\* 4294967296.0
Float2p32 == FloatOf(BShl(<<1>>, 32))

\* targetra = (targetraint * 24.0) / 4294967296.0
targetra(w) ==
  FloatDiv(FloatMul(FloatOf(IntOfLimbs(w)), Float(24)), Float2p32)

\* targetdec = (targetdecint * 360.0) / 4294967296.0, targetdecint being the
\* folded declination.
targetdec(f) ==
  FloatDiv(FloatMul([FloatOf(IntOfLimbs(f)) EXCEPT !.neg = f.neg], Float(360)),
           Float2p32)

\* The (targetra, targetdec) tuple appended for the type-0 frame at offset p:
\* targetra = targetraint * 24 / 2^32 and targetdec = targetdecint * 360 / 2^32
\* are held as their numerators.  (The timestamp at p+4 only feeds a log
\* message.)
GotoOfFrame(readbuf, p) ==
  [ra |-> from_le32(PySlice(readbuf, p + 12, p + 16)),
   dec |-> DecFold(from_le32(PySlice(readbuf, p + 16, p + 20)))]

\* (mutant of datareceived_loop: a frame of another type is taken to be its
\* header of 4 bytes)
RECURSIVE datareceived_loop_header(_, _, _, _)
datareceived_loop_header(readbuf, recv, p, q) ==
  IF ~(p < recv - 2)
  THEN [last |-> p, gotos |-> q, hung |-> FALSE]
  ELSE LET psize == from_le(PySlice(readbuf, p, p + 2))
           ptype == from_le(PySlice(readbuf, p + 2, p + 4))
           q2 == IF ptype = 0 THEN Append(q, GotoOfFrame(readbuf, p)) ELSE q
       IN IF psize > Len(readbuf) - p
          THEN [last |-> p, gotos |-> q, hung |-> FALSE]
          ELSE IF psize = 0
               THEN [last |-> p, gotos |-> q2, hung |-> TRUE]
               ELSE datareceived_loop_header(
                      readbuf, recv,
                      p + (IF ptype = 0 THEN psize ELSE 4), q2)

\* The while loop of datareceived from offset p, q being the goto requests
\* appended so far.  A frame whose length field is 0 leaves p unchanged, so
\* the loop never ends: hung.
RECURSIVE datareceived_loop(_, _, _, _)
datareceived_loop(readbuf, recv, p, q) ==
  IF ~(p < recv - 2)
  THEN [last |-> p, gotos |-> q, hung |-> FALSE]
  ELSE LET psize == from_le(PySlice(readbuf, p, p + 2))
           ptype == from_le(PySlice(readbuf, p + 2, p + 4))
           q2 == IF ptype = 0 THEN Append(q, GotoOfFrame(readbuf, p)) ELSE q
       IN IF psize > Len(readbuf) - p
          THEN [last |-> p, gotos |-> q, hung |-> FALSE]
          ELSE IF psize = 0
               THEN [last |-> p, gotos |-> q2, hung |-> TRUE]
               ELSE datareceived_loop(readbuf, recv, p + psize, q2)

\* StelClient.datareceived: the number of bytes processed, the goto requests
\* appended to gotoQueue, and whether the loop fails to terminate.
datareceived(cl) == datareceived_loop(cl.readbuf, cl.recv, 0, <<>>)

\* StelClient.performRead when recv_into delivered the bytes `data`
\* (Len(data) > 0): the client after the read and the result of datareceived.
performRead(cl, data) ==
  LET nrecv == Len(data)
      buf == data \o Zeros(BufSize - cl.recv - nrecv)
      c1 == [cl EXCEPT !.readbuf = PySliceAssign(@, cl.recv, cl.recv + nrecv, buf),
                       !.recv = @ + nrecv]
      r == datareceived(c1)
      c2 == IF r.last > 0
            THEN [c1 EXCEPT !.readbuf = PyFrom(@, r.last), !.recv = @ - r.last]
            ELSE c1
  IN [client |-> c2, last |-> r.last, gotos |-> r.gotos, hung |-> r.hung]

\* (mutant of sendMsg: a frame is dropped while another one is pending)
sendMsg_drop(cl, msg) ==
  IF cl.tosend = 0
  THEN [cl EXCEPT !.writebuf = PySliceAssign(@, 0, Len(msg), msg),
                  !.tosend = Len(msg)]
  ELSE cl

\* StelClient.sendMsg
sendMsg(cl, msg) ==
  IF cl.tosend = 0
  THEN [cl EXCEPT !.writebuf = PySliceAssign(@, 0, Len(msg), msg),
                  !.tosend = Len(msg)]
  ELSE [cl EXCEPT !.msgq = Append(@, msg)]

\* tstamp of sendEqCoords: the current time when utc is empty,
\* calendar.timegm of the parsed time when it parses, and 0 otherwise.
Tstamp(utc) ==
  CASE utc = "" -> ClockNow
    [] utc = "2024-06-01T10:00:00" -> 1717236000
    [] OTHER -> 0

\* int(math.floor(rajnow * (4294967296.0 / 24.0))) for a whole number of
\* hours 0 <= rajnow < 12 (the doubles give the exact floor there).
ScaleRA(rajnow) == 178956970 * rajnow + (2 * rajnow) \div 3

\* int(math.floor(decjnow * (4294967296.0 / 360.0))) for a whole number of
\* degrees -90 <= decjnow <= 90.
ScaleDec(decjnow) == 11930464 * decjnow + (32 * decjnow) \div 45

\* (mutant of RaBytes: the hours are scaled as degrees are)
RaBytes_asDegrees(rajnow) ==
  to_le_int(FloatFloor(FloatMul(rajnow, FloatDiv(Float2p32, Float(360)))), 4)

\* msg[12:16] = to_le(int(math.floor(rajnow * (4294967296.0 / 24.0))), 4)
\* for a float rajnow.
RaBytes(rajnow) ==
  to_le_int(FloatFloor(FloatMul(rajnow, FloatDiv(Float2p32, Float(24)))), 4)

\* msg[16:20] = to_le(int(math.floor(decjnow * (4294967296.0 / (360.0)))), 4)
\* for a float decjnow.
DecBytes(decjnow) ==
  to_le_int(FloatFloor(FloatMul(decjnow, FloatDiv(Float2p32, Float(360)))), 4)

\* The 24-byte frame built by sendEqCoords.
EqCoordsMsg(utc, rajnow, decjnow, st) ==
  to_le(EqMsgLen, 2) \o to_le(0, 2) \o to_le(Tstamp(utc), 8)
    \o to_le(ScaleRA(rajnow), 4) \o to_le(ScaleDec(decjnow), 4) \o to_le(st, 4)

\* StelClient.sendEqCoords
sendEqCoords(cl, utc, rajnow, decjnow, st) ==
  sendMsg(cl, EqCoordsMsg(utc, rajnow, decjnow, st))

\* (mutant of performWrite: the bytes sent stay at the head of writebuf)
performWrite_resend(cl, sent) ==
  [client |-> [cl EXCEPT !.tosend = @ - sent], raised |-> FALSE]

\* StelClient.performWrite when send accepted `sent` > 0 bytes.  When the
\* frame is finished and msgq is not empty, the next frame is copied to
\* writebuf and `len(msgq[0])` then raises NameError (msgq is no name in
\* that scope): tosend and msgq keep their values and the exception leaves
\* the main loop.
performWrite(cl, sent) ==
  LET c1 == [cl EXCEPT !.writebuf = PyFrom(@, sent), !.tosend = @ - sent]
      more == c1.tosend = 0 /\ Len(c1.msgq) > 0
      c2 == IF more
            THEN [c1 EXCEPT !.writebuf =
                    PySliceAssign(@, 0, Len(c1.msgq[1]), c1.msgq[1])]
            ELSE c1
  IN [client |-> c2, raised |-> more]

(***************************************************************************)
(* State of the Stellarium bridge.                                         *)
(***************************************************************************)
VARIABLES
  \* globals of pyindi-stellarium.py
  killed, indiServerConnected, isIndiTelescopeConnected,
  indiTelescopeRAJNOW, indiTelescopeDECJNOW, indiTelescopeTIMEUTC,
  gotoQueue, stelClients,
  \* the main thread: its position in the main loop, the lists returned by
  \* select, the sockets the broadcast loop has still to visit and the
  \* arguments of sendEqCoords that are already evaluated
  pc, ready_to_read, ready_to_write, in_error, bcast, args,
  \* the INDI callback thread: <<>> when no callback runs, <<dec>> between
  \* the two assignments of an EQUATORIAL_EOD_COORD callback
  cb,
  \* the network: connections waiting in the listen queue, connections
  \* opened and accepted so far, bytes sent by each peer and not yet read,
  \* peers that closed, what the peers did so far, bytes each peer received
  backlog, opened, accepted, inflight, peerClosed, sockError, netEvents, wire,
  \* the properties sent to the INDI server and the shutdown calls, in order
  indiSent, shutdownLog,
  \* history: bytes read on each connection, goto requests decoded on each
  \* connection, frames handed to sendMsg for each connection, goto
  \* requests ever queued, the (ra, dec) pairs delivered by INDI, the pair
  \* of the last coordinate frame, the last socket I/O, whether a
  \* termination signal was delivered, finished loop iterations
  rcvd, decoded, handed, enqueued, updates, lastCoords, lastIO, signalled, ticks,
  waits

\* The coordinates of one goto frame on their way through datareceived and
\* back through sendEqCoords: the frame's integers, the floats decoded,
\* and the bytes 12..20 of the frame built from these floats.
VARIABLE conv

progVars == <<killed, indiServerConnected, isIndiTelescopeConnected,
              indiTelescopeRAJNOW, indiTelescopeDECJNOW, indiTelescopeTIMEUTC,
              gotoQueue, stelClients>>
mainVars == <<pc, ready_to_read, ready_to_write, in_error, bcast, args>>
netVars == <<backlog, opened, accepted, inflight, peerClosed, sockError, netEvents, wire>>
histVars == <<rcvd, decoded, handed, enqueued, updates, lastCoords, lastIO,
              signalled, waits, ticks>>
stelVars == <<progVars, mainVars, cb, netVars, indiSent, shutdownLog, histVars,
              conv>>

(***************************************************************************)
(* The state of the SynScan bridge (examples/pyindi-synscan.py).           *)
(*   synpc           where the bridge is: "idle" (no chunk being           *)
(*                   processed), "while" (at the loop test of              *)
(*                   process_command), "retry" (at the loop test of a      *)
(*                   retry accessor), "ret" (an accessor has returned),    *)
(*                   "returned" (process_command has returned)             *)
(*   buf, i, reply   the locals of process_command (i counts from 0)       *)
(*   isconnected     IndiClient.isconnected                                *)
(*   deviceConnected device.isConnected()                                  *)
(*   valid           the properties for which isValid() is true            *)
(*   busy            EQUATORIAL_EOD_COORD is in state IPS_BUSY             *)
(*   call, retval    the frame of the running accessor and its result      *)
(*   synSent         the properties given to sendNewProperty, in order     *)
(* History: mark and ops (where the running command started and the INDI   *)
(* calls it has made), lastDecode (the last command processed), lastCall   *)
(* (the last accessor call completed), exhausted (the accessor/name pairs  *)
(* whose last full call saw ntry invalid fetches and no valid one since), *)
(* and the budgets indiEvents, chunks and calls.                           *)
(***************************************************************************)
VARIABLES
  synpc, buf, i, reply, isconnected, deviceConnected, valid, busy,
  numberFailures, switchFailures, textFailures, call, retval, synSent,
  mark, ops, lastDecode, lastCall, exhausted, indiEvents, chunks, calls

(***************************************************************************)
(* The values of the INDI properties the SynScan bridge reads.             *)
(*   eqCoord    EQUATORIAL_EOD_COORD: ra in hours, dec in degrees, each a  *)
(*              double [neg, m, e] of value +-m * 2^e                      *)
(*   timeUtc    TIME_UTC: utc is <<year, month, day, hour, minute,         *)
(*              second>> (element 0, ISO-8601), offset the integer of      *)
(*              element 1 and offsetSet whether element 1 is not empty     *)
(*   mountInfo  element 0 of MOUNTINFORMATION                              *)
(*   trackRate  the switches of TELESCOPE_TRACK_RATE that are ON           *)
(*   slewRate   the names of the switches of TELESCOPE_SLEW_RATE, in order *)
(***************************************************************************)
VARIABLES eqCoord, timeUtc, mountInfo, trackRate, slewRate

valVars == <<eqCoord, timeUtc, mountInfo, trackRate, slewRate>>

\* The exception process_command has raised ("" for none); synpc is then
\* "raised" and the bridge ends with a traceback.
VARIABLE exc

\* History: what the last command with a payload or a property value has
\* read, the payload or the value ("" for none).
VARIABLE seen

\* The bytes the main loop has written back for the last chunk, and on
\* which transport ("none" before).
VARIABLE written

\* History: the calls of process_command made one after the other by a
\* caller that keeps the replies: the chunk and the reply of each.
VARIABLE replies

\* The start of the SynScan bridge (the statements before its main loop).
\*   device          the global `device` is set (getDevice has returned it)
\*   connectPending  the CONNECTION request the bridge has sent is not yet
\*                   answered by the driver
\*   everConnected   history: device.isConnected() has been true
VARIABLES device, connectPending, everConnected

startVars == <<device, connectPending, everConnected>>

\* The main loop of the SynScan bridge and its peers.
\*   mainpc    where the script is: before the loop "connectServer",
\*             "getDevice", "ifConnected", "simulation", "getConnect",
\*             "sendConnect" ("sendConnect_unset" when device_connect was
\*             not assigned), "waitConnected", "open", "raised"; in the
\*             loop, the call it waits in for a chunk: "select" (select on
\*             the serial port and the listening socket, 1 s at most) or
\*             "recv" (connection.recv on the accepted connection)
\*   serialIn  the chunks written to the serial port and not yet read
\*   tcp       the TCP client: peer is "none", "open" (connected) or
\*             "closed" (by the client), accepted whether sock.accept() has
\*             returned its connection, in the chunks it has sent that
\*             were not yet read
VARIABLES mainpc, serialIn, tcp

loopVars == <<mainpc, serialIn, tcp, startVars>>

cmdVars == <<buf, i, reply, mark, ops, lastDecode, chunks>>
indiVars == <<isconnected, deviceConnected, valid, busy, indiEvents>>
failVars == <<numberFailures, switchFailures, textFailures>>
callVars == <<call, retval, lastCall, exhausted, calls>>
synVars == <<synpc, cmdVars, indiVars, failVars, callVars, synSent, valVars, exc, seen, written, replies,
            loopVars>>

\* The listening socket; the connections are 1 .. MaxClients.
stelSocket == 0
Socks == 1..MaxClients

\* The goto frames a Stellarium client sends: [len:2][type:2][micros:8][ra:4][dec:4].
GotoFrame(ra, dec) ==
  to_le(20, 2) \o to_le(0, 2) \o <<1, 2, 3, 4, 5, 6, 0, 0>>
    \o to_le32(ra) \o to_le32(dec)

\* RA 6 h with Dec +45 deg, and RA 0x04030201 with Dec -1 unit.
FrameMenu ==
  { GotoFrame([hi |-> 16384, lo |-> 0], [hi |-> 8192, lo |-> 0]),
    GotoFrame([hi |-> 1027, lo |-> 513], [hi |-> 65535, lo |-> 65535]) }

\* The frames of a type other than 0 a client sends: [len:2][type:2] and the
\* rest; one of the header alone, one of type 256 followed by two bytes.
OtherFrames ==
  { to_le(4, 2) \o to_le(1, 2),
    to_le(6, 2) \o to_le(256, 2) \o <<7, 7>> }

\* The (RA hours, Dec degrees) pairs the INDI server reports.
CoordMenu == { <<6, 45>>, <<9, -30>> }

\* The 32-bit integers of the goto frames whose coordinates are followed:
\* 0, 1, 3, 0x04030201, 0x12345678, 0x20000000, 0x40000000, 0x7FFFFFFF,
\* 0x80000000, 0x80000001, 0xAAAAAAAB, 0xC0000000, 0xFFFFFFFF.
WordMenu ==
  { [hi |-> 0, lo |-> 0], [hi |-> 0, lo |-> 1], [hi |-> 0, lo |-> 3],
    [hi |-> 1027, lo |-> 513], [hi |-> 4660, lo |-> 22136],
    [hi |-> 8192, lo |-> 0], [hi |-> 16384, lo |-> 0],
    [hi |-> 32767, lo |-> 65535], [hi |-> 32768, lo |-> 0],
    [hi |-> 32768, lo |-> 1], [hi |-> 43690, lo |-> 43691],
    [hi |-> 49152, lo |-> 0], [hi |-> 65535, lo |-> 65535] }

NoConv == [step |-> "none"]

\* A client has sent the goto frame with the integers ra and dec.
InitConv ==
  conv \in {[step |-> "frame", ra |-> ra, dec |-> dec] :
              ra \in WordMenu, dec \in WordMenu}

\* datareceived decodes the frame: the (targetra, targetdec) tuple it
\* appends to gotoQueue.
ConvDecode ==
  /\ conv.step = "frame"
  /\ LET frame == GotoFrame(conv.ra, conv.dec)
         res   == datareceived_loop(frame, Len(frame), 0, <<>>)
         goto  == Head(res.gotos)
     IN conv' = [step |-> "decoded", ra |-> conv.ra, dec |-> conv.dec,
                 targetra |-> targetra(goto.ra),
                 targetdec |-> targetdec(goto.dec)]
  /\ UNCHANGED <<synVars, progVars, mainVars, cb, netVars, indiSent,
                 shutdownLog, histVars>>

\* The telescope is at the coordinates of the goto, and sendEqCoords builds
\* the frame of these coordinates: its bytes 12..16 and 16..20.
ConvEncode ==
  /\ conv.step = "decoded"
  /\ conv' = [step |-> "encoded", ra |-> conv.ra, dec |-> conv.dec,
              targetra |-> conv.targetra, targetdec |-> conv.targetdec,
              rabytes |-> RaBytes(conv.targetra),
              decbytes |-> DecBytes(conv.targetdec)]
  /\ UNCHANGED <<synVars, progVars, mainVars, cb, netVars, indiSent,
                 shutdownLog, histVars>>

\* Integers near the powers of 256, of both signs.
WideInts ==
  {65535, 65536, 65537, 70000, -65535, -65536, -65537, -70000,
   16777215, 16777216, 16777217, -16777215, -16777216, -16777217}

\* to_be or to_le is about to be called with the int n and the size k.
InitBytes ==
  conv \in {[step |-> "int", n |-> n, size |-> k] :
              n \in (-MaxInt..MaxInt) \cup WideInts, k \in 0..MaxSize}

\* to_le(n, size) and to_be(n, size)
BytesEncode ==
  /\ conv.step = "int"
  /\ conv' = [step |-> "bytes", n |-> conv.n, size |-> conv.size,
              le |-> to_le(conv.n, conv.size),
              be |-> to_be(conv.n, conv.size)]
  /\ UNCHANGED <<synVars, progVars, mainVars, cb, netVars, indiSent,
                 shutdownLog, histVars>>

\* from_le and from_be of the bytes
BytesDecode ==
  /\ conv.step = "bytes"
  /\ conv' = [step |-> "back", n |-> conv.n, size |-> conv.size,
              le |-> conv.le, be |-> conv.be,
              fromle |-> from_le(conv.le), frombe |-> from_be(conv.be)]
  /\ UNCHANGED <<synVars, progVars, mainVars, cb, netVars, indiSent,
                 shutdownLog, histVars>>

Running == pc \notin {"exit0", "crashed", "hung"}

InitStel ==
  /\ killed = FALSE
  /\ indiServerConnected = FALSE
  /\ isIndiTelescopeConnected = FALSE
  /\ indiTelescopeRAJNOW = 0
  /\ indiTelescopeDECJNOW = 0
  /\ indiTelescopeTIMEUTC = ""
  /\ gotoQueue = <<>>
  /\ stelClients = <<>>
  /\ pc = "while"
  /\ ready_to_read = <<>>
  /\ ready_to_write = <<>>
  /\ in_error = <<>>
  /\ bcast = <<>>
  /\ args = <<>>
  /\ cb = <<>>
  /\ backlog = 0
  /\ opened = 0
  /\ accepted = 0
  /\ inflight = [c \in Socks |-> <<>>]
  /\ peerClosed = [c \in Socks |-> FALSE]
  /\ sockError = [c \in Socks |-> FALSE]
  /\ netEvents = 0
  /\ wire = [c \in Socks |-> <<>>]
  /\ indiSent = <<>>
  /\ shutdownLog = <<>>
  /\ rcvd = [c \in Socks |-> <<>>]
  /\ decoded = [c \in Socks |-> 0]
  /\ handed = [c \in Socks |-> <<>>]
  /\ enqueued = <<>>
  /\ updates = { <<0, 0>> }
  /\ lastCoords = <<0, 0>>
  /\ lastIO = [op |-> "none", sock |-> 0, n |-> 0, seq |-> 0]
  /\ signalled = FALSE
  /\ ticks = 0
  /\ waits = <<>>

(***************************************************************************)
(* The main loop of pyindi-stellarium.py.                                  *)
(***************************************************************************)
\* stelClients.pop(sock)
DropClient(clients, sock) == [d \in DOMAIN clients \ {sock} |-> clients[d]]

\* (mutant of GotoFront: the newest request is sent instead of the oldest)
GotoFront_newest(q) == q[Len(q)]

\* gotoQueue[0], the request the loop sends
GotoFront(q) == q[1]

\* (mutant of GotoRest: the request sent stays in the queue)
GotoRest_keep(q) == q

\* gotoQueue[1:]
GotoRest(q) == PyFrom(q, 1)

\* `while not killed:` and `if not (indiServerConnected):`
LoopTest ==
  /\ pc = "while"
  /\ ticks < MaxTicks
  /\ pc' = IF killed THEN "cleanup"
           ELSE IF ~indiServerConnected THEN "waitServer" ELSE "iftel"
  /\ UNCHANGED <<synVars, conv, progVars, ready_to_read, ready_to_write, in_error, bcast, args, cb,
                 netVars, indiSent, shutdownLog, histVars>>

\* (mutant of waitServer: the loop is left after the first sleep)
waitServer_once(ok) ==
  /\ pc = "waitServer"
  /\ ~ok => Len(waits) < MaxWaits
  /\ indiServerConnected' = (ok \/ indiServerConnected)
  /\ pc' = "iftel"
  /\ waits' = IF ok THEN <<>> ELSE Append(waits, RetryDelay)
  /\ UNCHANGED <<synVars, conv, killed, isIndiTelescopeConnected, indiTelescopeRAJNOW,
                 indiTelescopeDECJNOW, indiTelescopeTIMEUTC, gotoQueue,
                 stelClients, ready_to_read, ready_to_write, in_error, bcast, args, cb,
                 netVars, indiSent, shutdownLog, rcvd, decoded, handed,
                 enqueued, updates, lastCoords, lastIO, signalled, ticks>>

\* One attempt of IndiClient.waitServer: connectServer() returns ok; when it
\* succeeds the serverConnected callback has set indiServerConnected, when it
\* fails the loop sleeps 5 s and tries again.  waits holds the sleeps of the
\* call that is running.
waitServer(ok) ==
  /\ pc = "waitServer"
  /\ ~ok => Len(waits) < MaxWaits
  /\ indiServerConnected' = (ok \/ indiServerConnected)
  /\ pc' = IF ok THEN "iftel" ELSE "waitServer"
  /\ waits' = IF ok THEN <<>> ELSE Append(waits, RetryDelay)
  /\ UNCHANGED <<synVars, conv, killed, isIndiTelescopeConnected, indiTelescopeRAJNOW,
                 indiTelescopeDECJNOW, indiTelescopeTIMEUTC, gotoQueue,
                 stelClients, ready_to_read, ready_to_write, in_error, bcast, args, cb,
                 netVars, indiSent, shutdownLog, rcvd, decoded, handed,
                 enqueued, updates, lastCoords, lastIO, signalled, ticks>>

\* `if isIndiTelescopeConnected:` and the start of `for s in stelClients:`
IfTelescope ==
  /\ pc = "iftel"
  /\ IF isIndiTelescopeConnected
     THEN /\ bcast' = SortedSeq(DOMAIN stelClients)
          /\ pc' = IF DOMAIN stelClients = {} THEN "goto" ELSE "bcast"
     ELSE /\ bcast' = <<>>
          /\ pc' = "select"
  /\ UNCHANGED <<synVars, conv, progVars, ready_to_read, ready_to_write, in_error, args, cb,
                 netVars, indiSent, shutdownLog, histVars>>

\* The arguments of sendEqCoords are evaluated left to right:
\* indiTelescopeTIMEUTC and indiTelescopeRAJNOW first ...
BroadcastLoad ==
  /\ pc = "bcast"
  /\ args' = <<indiTelescopeTIMEUTC, indiTelescopeRAJNOW>>
  /\ pc' = "bcast2"
  /\ UNCHANGED <<synVars, conv, progVars, ready_to_read, ready_to_write, in_error, bcast, cb,
                 netVars, indiSent, shutdownLog, histVars>>

\* ... then indiTelescopeDECJNOW and status, and the call is made.
BroadcastSend ==
  /\ pc = "bcast2"
  /\ LET s == Head(bcast)
         msg == EqCoordsMsg(args[1], args[2], indiTelescopeDECJNOW, status)
     IN /\ stelClients' = [stelClients EXCEPT
               ![s] = sendEqCoords(@, args[1], args[2], indiTelescopeDECJNOW, status)]
        /\ handed' = [handed EXCEPT ![s] = @ \o msg]
        /\ lastCoords' = <<args[2], indiTelescopeDECJNOW>>
  /\ bcast' = Tail(bcast)
  /\ args' = <<>>
  /\ pc' = IF Tail(bcast) = <<>> THEN "goto" ELSE "bcast"
  /\ UNCHANGED <<synVars, conv, killed, indiServerConnected, isIndiTelescopeConnected,
                 indiTelescopeRAJNOW, indiTelescopeDECJNOW, indiTelescopeTIMEUTC,
                 gotoQueue, ready_to_read, ready_to_write, in_error, cb, netVars,
                 indiSent, shutdownLog, rcvd, decoded, enqueued, updates,
                 lastIO, signalled, waits, ticks>>

\* `if len(gotoQueue) > 0:`: ON_COORD_SET is reset and sent with switch 0 on,
\* EQUATORIAL_EOD_COORD gets gotoQueue[0], the request is removed and the
\* property is sent.
GotoStep ==
  /\ pc = "goto"
  /\ IF Len(gotoQueue) > 0
     THEN /\ indiSent' = indiSent \o
               << [prop |-> "ON_COORD_SET", value |-> 0, tick |-> ticks],
                  [prop |-> "EQUATORIAL_EOD_COORD",
                   value |-> GotoFront(gotoQueue), tick |-> ticks] >>
          /\ gotoQueue' = GotoRest(gotoQueue)
     ELSE UNCHANGED <<indiSent, gotoQueue>>
  /\ pc' = "select"
  /\ UNCHANGED <<synVars, conv, killed, indiServerConnected, isIndiTelescopeConnected,
                 indiTelescopeRAJNOW, indiTelescopeDECJNOW, indiTelescopeTIMEUTC,
                 stelClients, ready_to_read, ready_to_write, in_error, bcast, args, cb,
                 netVars, shutdownLog, histVars>>

\* hasToWrite
hasToWrite(cl) == cl.tosend > 0

\* The sockets select reports in its third result: those of the list it is
\* given that have an exceptional condition pending.
SelectErrors(xlist) == SortedSeq({c \in xlist : sockError[c]})

\* select.select(readers, writers, [], 0.5): the listening socket is readable
\* when a connection waits, a client when bytes or an end of stream wait; any
\* of the writers may be writable.  The list of sockets to watch for errors
\* is the empty list.
Select ==
  /\ pc = "select"
  /\ ready_to_read' =
       (IF backlog > 0 THEN <<stelSocket>> ELSE <<>>)
         \o SortedSeq({c \in DOMAIN stelClients :
                         inflight[c] # <<>> \/ peerClosed[c]})
  /\ \E W \in SUBSET {c \in DOMAIN stelClients : hasToWrite(stelClients[c])} :
       ready_to_write' = SortedSeq(W)
  /\ in_error' = SelectErrors({})
  /\ pc' = "io"
  /\ UNCHANGED <<synVars, conv, progVars, bcast, args, cb, netVars, indiSent, shutdownLog,
                 histVars>>

\* The byte counts recv_into may return for a client: 0 at the end of the
\* stream (or for an empty request), else a short read or all that fits.
RecvCounts(cl, avail) ==
  LET room == BufSize - cl.recv
      most == IF avail < room THEN avail ELSE room
  IN IF most <= 0 THEN {0}
     ELSE {IF SplitAt < most THEN SplitAt ELSE most, most}

\* The byte counts send may return for `len` bytes.
SendCounts(len) ==
  IF len <= 0 THEN {0}
  ELSE {0, IF PartialSend < len THEN PartialSend ELSE len, len}

\* One round of `for r in ready_to_read:`: accept on the listening socket,
\* performRead on a client.
ReadStep ==
  /\ pc = "io"
  /\ ready_to_read # <<>>
  /\ ready_to_read' = Tail(ready_to_read)
  /\ LET r == Head(ready_to_read) IN
       IF r = stelSocket
       THEN /\ stelClients' = (accepted + 1 :> NewStelClient) @@ stelClients
            /\ accepted' = accepted + 1
            /\ backlog' = backlog - 1
            /\ pc' = "io"
            /\ UNCHANGED <<gotoQueue, inflight, rcvd, decoded, enqueued, lastIO>>
       ELSE \E n \in RecvCounts(stelClients[r], Len(inflight[r])) :
              /\ lastIO' = [op |-> "read", sock |-> r, n |-> n,
                            seq |-> lastIO.seq + 1]
              /\ UNCHANGED <<accepted, backlog>>
              /\ IF n <= 0
                 THEN /\ stelClients' = DropClient(stelClients, r)
                      /\ pc' = "io"
                      /\ UNCHANGED <<gotoQueue, inflight, rcvd, decoded, enqueued>>
                 ELSE LET data == SubSeq(inflight[r], 1, n)
                          res == performRead(stelClients[r], data)
                      IN /\ stelClients' = [stelClients EXCEPT ![r] = res.client]
                         /\ gotoQueue' = gotoQueue \o res.gotos
                         /\ enqueued' = enqueued \o
                              [k \in 1..Len(res.gotos) |->
                                 [goto |-> Head(SubSeq(res.gotos, k, k)), tick |-> ticks]]
                         /\ inflight' = [inflight EXCEPT ![r] = PyFrom(@, n)]
                         /\ rcvd' = [rcvd EXCEPT ![r] = @ \o data]
                         /\ decoded' = [decoded EXCEPT ![r] = @ + Len(res.gotos)]
                         /\ pc' = IF res.hung THEN "hung" ELSE "io"
  /\ UNCHANGED <<synVars, conv, killed, indiServerConnected, isIndiTelescopeConnected,
                 indiTelescopeRAJNOW, indiTelescopeDECJNOW, indiTelescopeTIMEUTC,
                 ready_to_write, in_error, bcast, args, cb, opened, peerClosed, sockError,
                 netEvents, wire, indiSent, shutdownLog, handed, updates,
                 lastCoords, signalled, waits, ticks>>

\* One round of `for r in ready_to_write:`: performWrite when the client is
\* still in stelClients.
WriteStep ==
  /\ pc = "io"
  /\ ready_to_read = <<>>
  /\ ready_to_write # <<>>
  /\ ready_to_write' = Tail(ready_to_write)
  /\ LET r == Head(ready_to_write) IN
       IF r \notin DOMAIN stelClients
       THEN /\ pc' = "io"
            /\ UNCHANGED <<stelClients, wire, lastIO>>
       ELSE LET data == PySlice(stelClients[r].writebuf, 0, stelClients[r].tosend)
            IN \E sent \in SendCounts(Len(data)) :
                 /\ lastIO' = [op |-> "write", sock |-> r, n |-> sent,
                               seq |-> lastIO.seq + 1]
                 /\ IF sent <= 0
                    THEN /\ stelClients' = DropClient(stelClients, r)
                         /\ pc' = "io"
                         /\ UNCHANGED wire
                    ELSE LET res == performWrite(stelClients[r], sent)
                         IN /\ stelClients' = [stelClients EXCEPT ![r] = res.client]
                            /\ wire' = [wire EXCEPT ![r] = @ \o SubSeq(data, 1, sent)]
                            /\ pc' = IF res.raised THEN "crashed" ELSE "io"
  /\ UNCHANGED <<synVars, conv, killed, indiServerConnected, isIndiTelescopeConnected,
                 indiTelescopeRAJNOW, indiTelescopeDECJNOW, indiTelescopeTIMEUTC,
                 gotoQueue, ready_to_read, in_error, bcast, args, cb, backlog,
                 opened, accepted, inflight, peerClosed, sockError, netEvents,
                 indiSent,
                 shutdownLog, rcvd, decoded, handed, enqueued, updates,
                 lastCoords, signalled, waits, ticks>>

\* lost = the sockets of in_error, each disconnected and removed from
\* stelClients when still there.
RECURSIVE DropLost(_, _)
DropLost(clients, lost) ==
  IF lost = <<>> THEN clients
  ELSE DropLost(IF Head(lost) \in DOMAIN clients
                THEN DropClient(clients, Head(lost)) ELSE clients,
                Tail(lost))

\* `for r in in_error:`, then time.sleep(0.5) and the next iteration.
EndIteration ==
  /\ pc = "io"
  /\ ready_to_read = <<>>
  /\ ready_to_write = <<>>
  /\ stelClients' = DropLost(stelClients, in_error)
  /\ in_error' = <<>>
  /\ pc' = "while"
  /\ ticks' = ticks + 1
  /\ UNCHANGED <<synVars, conv, killed, indiServerConnected, isIndiTelescopeConnected,
                 indiTelescopeRAJNOW, indiTelescopeDECJNOW, indiTelescopeTIMEUTC,
                 gotoQueue, ready_to_read, ready_to_write, bcast, args, cb,
                 netVars, indiSent, shutdownLog, rcvd, decoded, handed,
                 enqueued, updates, lastCoords, lastIO, signalled, waits>>

\* The code after the loop: the listening socket is shut down and closed,
\* every client is disconnected, the listening socket is closed again, the
\* INDI server is disconnected, and sys.exit(0).
Cleanup ==
  /\ pc = "cleanup"
  /\ shutdownLog' = <<"close stelSocket">>
       \o [k \in 1..Cardinality(DOMAIN stelClients) |-> "disconnect client"]
       \o <<"close stelSocket", "disconnectServer">>
  /\ pc' = "exit0"
  /\ UNCHANGED <<synVars, conv, progVars, ready_to_read, ready_to_write, in_error, bcast, args, cb,
                 netVars, indiSent, histVars>>

\* SIGINT while the loop waits in select: KeyboardInterrupt is raised in the
\* main thread, caught by the `except` of the loop, and the code after the
\* loop runs.
KeyboardInterrupt ==
  /\ pc = "select"
  /\ pc' = "cleanup"
  /\ UNCHANGED <<synVars, conv, progVars, ready_to_read, ready_to_write, in_error, bcast, args, cb,
                 netVars, indiSent, shutdownLog, histVars>>

\* SIGHUP or SIGQUIT: the handler terminate runs in the main thread.  Its
\* `killed = True` binds a local name (the function declares no
\* `global killed`), so the module's flag keeps its value.
terminate ==
  /\ Running
  /\ ~signalled
  /\ signalled' = TRUE
  /\ UNCHANGED <<synVars, conv, killed, indiServerConnected, isIndiTelescopeConnected,
                 indiTelescopeRAJNOW, indiTelescopeDECJNOW, indiTelescopeTIMEUTC,
                 gotoQueue, stelClients, mainVars, cb, netVars, indiSent,
                 shutdownLog, rcvd, decoded, handed, enqueued, updates,
                 lastCoords, lastIO, waits, ticks>>

(***************************************************************************)
(* The Stellarium clients (the network).  The bridge observes the network  *)
(* only in select, accept, recv_into and send, so what the peers do is     *)
(* placed where the loop waits for it: before select.                      *)
(***************************************************************************)
NetworkPoint == pc = "select"

\* A Stellarium client connects to the listening port (at most `most`
\* connections are ever opened).
ClientConnect(most) ==
  /\ NetworkPoint
  /\ opened < most
  /\ netEvents < MaxNetEvents
  /\ netEvents' = netEvents + 1
  /\ opened' = opened + 1
  /\ backlog' = backlog + 1
  /\ UNCHANGED <<synVars, conv, progVars, mainVars, cb, accepted, inflight, peerClosed, sockError,
                 wire, indiSent, shutdownLog, histVars>>

\* An accepted client sends a goto frame.
ClientSend(c, frame) ==
  /\ NetworkPoint
  /\ c \in DOMAIN stelClients
  /\ ~peerClosed[c]
  /\ netEvents < MaxNetEvents
  /\ netEvents' = netEvents + 1
  /\ inflight' = [inflight EXCEPT ![c] = @ \o frame]
  /\ UNCHANGED <<synVars, conv, progVars, mainVars, cb, backlog, opened, accepted,
                 peerClosed, sockError, wire, indiSent, shutdownLog, histVars>>

\* An accepted client closes its end of the connection.
ClientClose(c) ==
  /\ NetworkPoint
  /\ c \in DOMAIN stelClients
  /\ ~peerClosed[c]
  /\ netEvents < MaxNetEvents
  /\ netEvents' = netEvents + 1
  /\ peerClosed' = [peerClosed EXCEPT ![c] = TRUE]
  /\ UNCHANGED <<synVars, conv, progVars, mainVars, cb, backlog, opened, accepted, inflight,
                 sockError, wire, indiSent, shutdownLog, histVars>>

\* An exceptional condition becomes pending on the socket of an accepted
\* client.
SocketError(c) ==
  /\ NetworkPoint
  /\ c \in DOMAIN stelClients
  /\ ~sockError[c]
  /\ netEvents < MaxNetEvents
  /\ netEvents' = netEvents + 1
  /\ sockError' = [sockError EXCEPT ![c] = TRUE]
  /\ UNCHANGED <<synVars, conv, progVars, mainVars, cb, backlog, opened, accepted, inflight,
                 peerClosed, wire, indiSent, shutdownLog, histVars>>

(***************************************************************************)
(* The INDI callbacks of IndiClient, run by the INDI client's thread while  *)
(* the server is connected, one callback at a time.  The interpreter may   *)
(* switch threads between any two bytecodes of a callback.  The main      *)
(* thread reads what the callbacks write in four places only (the loop     *)
(* test, the telescope test and the two loads of the broadcast), and a     *)
(* callback step commutes with every other step of the main thread, so the *)
(* callback steps are placed right before those reads.                     *)
(***************************************************************************)
CallbackPoint == pc \in {"while", "iftel", "bcast", "bcast2"}

\* newProperty for CONNECTION of the telescope: the flag is set when the
\* device reports connected (after the autoconnect request, if any).
newProperty_CONNECTION(devConnected) ==
  /\ CallbackPoint
  /\ indiServerConnected
  /\ cb = <<>>
  /\ isIndiTelescopeConnected' = (devConnected \/ isIndiTelescopeConnected)
  /\ UNCHANGED <<synVars, conv, killed, indiServerConnected, indiTelescopeRAJNOW,
                 indiTelescopeDECJNOW, indiTelescopeTIMEUTC, gotoQueue,
                 stelClients, mainVars, cb, netVars, indiSent, shutdownLog,
                 histVars>>

\* updateProperty for CONNECTION: switch 0 on sets the flag, switch 1 on
\* clears it.
updateProperty_CONNECTION(sw0, sw1) ==
  /\ CallbackPoint
  /\ indiServerConnected
  /\ cb = <<>>
  /\ isIndiTelescopeConnected' =
       (IF sw1 THEN FALSE ELSE IF sw0 THEN TRUE ELSE isIndiTelescopeConnected)
  /\ UNCHANGED <<synVars, conv, killed, indiServerConnected, indiTelescopeRAJNOW,
                 indiTelescopeDECJNOW, indiTelescopeTIMEUTC, gotoQueue,
                 stelClients, mainVars, cb, netVars, indiSent, shutdownLog,
                 histVars>>

\* newProperty / updateProperty for EQUATORIAL_EOD_COORD, first assignment:
\* indiTelescopeRAJNOW = nvp[0].getValue()
updateProperty_RA(coord) ==
  /\ CallbackPoint
  /\ indiServerConnected
  /\ cb = <<>>
  /\ indiTelescopeRAJNOW' = coord[1]
  /\ cb' = <<coord[2]>>
  /\ updates' = updates \cup {coord}
  /\ UNCHANGED <<synVars, conv, killed, indiServerConnected, isIndiTelescopeConnected,
                 indiTelescopeDECJNOW, indiTelescopeTIMEUTC, gotoQueue,
                 stelClients, mainVars, netVars, indiSent, shutdownLog,
                 rcvd, decoded, handed, enqueued, lastCoords, lastIO,
                 signalled, waits, ticks>>

\* ... second assignment: indiTelescopeDECJNOW = nvp[1].getValue()
updateProperty_DEC ==
  /\ CallbackPoint
  /\ cb # <<>>
  /\ indiTelescopeDECJNOW' = cb[1]
  /\ cb' = <<>>
  /\ UNCHANGED <<synVars, conv, killed, indiServerConnected, isIndiTelescopeConnected,
                 indiTelescopeRAJNOW, indiTelescopeTIMEUTC, gotoQueue,
                 stelClients, mainVars, netVars, indiSent, shutdownLog,
                 histVars>>

\* updateProperty for TIME_UTC
updateProperty_TIME_UTC(utc) ==
  /\ CallbackPoint
  /\ indiServerConnected
  /\ cb = <<>>
  /\ indiTelescopeTIMEUTC' = utc
  /\ UNCHANGED <<synVars, conv, killed, indiServerConnected, isIndiTelescopeConnected,
                 indiTelescopeRAJNOW, indiTelescopeDECJNOW, gotoQueue,
                 stelClients, mainVars, cb, netVars, indiSent, shutdownLog,
                 histVars>>

\* serverDisconnected
serverDisconnected ==
  /\ CallbackPoint
  /\ indiServerConnected
  /\ cb = <<>>
  /\ indiServerConnected' = FALSE
  /\ UNCHANGED <<synVars, conv, killed, isIndiTelescopeConnected, indiTelescopeRAJNOW,
                 indiTelescopeDECJNOW, indiTelescopeTIMEUTC, gotoQueue,
                 stelClients, mainVars, cb, netVars, indiSent, shutdownLog,
                 histVars>>

(***************************************************************************)
(* The SynScan bridge: the retry accessors.                                 *)
(***************************************************************************)
NumberProps == {"EQUATORIAL_EOD_COORD"}
SwitchProps == {"TELESCOPE_ABORT_MOTION"}
TextProps == {"TIME_UTC"}
Props == NumberProps \cup SwitchProps \cup TextProps

\* The properties of the commands 'e', 'E', 'h', 'm', 'H', 'r', 'R', 's',
\* 'S' and 'T'.
CmdProps ==
  {"EQUATORIAL_EOD_COORD", "ON_COORD_SET", "TIME_UTC", "MOUNTINFORMATION",
   "TELESCOPE_TRACK_RATE"}

\* The properties of the command 'P'.
MoveProps ==
  {"TELESCOPE_MOTION_WE", "TELESCOPE_MOTION_NS", "TELESCOPE_SLEW_RATE"}

\* ord() of the characters the bridge names; "NUL" stands for "\x00".
ord(c) ==
  CASE c = "NUL" -> 0   [] c = "#" -> 35   [] c = "0" -> 48   [] c = "1" -> 49
    [] c = "!" -> 33    [] c = "," -> 44   [] c = "2" -> 50   [] c = "3" -> 51
    [] c = "E" -> 69    [] c = "H" -> 72   [] c = "J" -> 74   [] c = "K" -> 75
    [] c = "L" -> 76    [] c = "M" -> 77   [] c = "P" -> 80   [] c = "R" -> 82
    [] c = "S" -> 83    [] c = "T" -> 84   [] c = "V" -> 86   [] c = "W" -> 87
    [] c = "e" -> 101   [] c = "h" -> 104  [] c = "m" -> 109  [] c = "p" -> 112
    [] c = "r" -> 114   [] c = "s" -> 115  [] c = "t" -> 116  [] c = "w" -> 119

\* The opcodes process_command has a branch for.
OpcodeTable ==
  {ord(c) : c \in {"NUL", "#", "K", "J", "e", "E", "h", "m", "w", "V", "H",
                   "W", "r", "R", "s", "S", "L", "M", "P", "p", "t", "T"}}

\* The bytes the chunks are made of: the opcodes modelled and a byte that is
\* no opcode.
OpcodeMenu == {ord(c) : c \in {"NUL", "#", "K", "J", "V", "L", "M"}} \cup {255}
BufMenu == UNION {[1..n -> OpcodeMenu] : n \in 1..MaxBuf}

NoCall ==
  [kind |-> "none", prop |-> "", ntry |-> 0, gets |-> 0, sleeps |-> 0,
   was |-> FALSE, first |-> "none", cont |-> ""]
NoResult ==
  [kind |-> "none", prop |-> "", was |-> FALSE, first |-> "none", gets |-> 0,
   sleeps |-> 0, result |-> "None"]
NoDecode ==
  [cmd |-> -1, from |-> 0, to |-> 0, appended |-> <<>>, ops |-> 0, up |-> TRUE,
   none |-> FALSE]

NoWrite == [via |-> "none", bytes |-> <<>>]
NoMark == [cmd |-> -1, at |-> 0, up |-> TRUE, sent |-> 0]

\* The state of the script at the statement `at`, with the server connection
\* `server`, the device connected or not and the properties `props` defined.
InitSynAt(at, server, dev, props) ==
  /\ synpc = "idle"
  /\ buf = <<>>
  /\ i = 0
  /\ reply = <<>>
  /\ isconnected = server
  /\ deviceConnected = dev
  /\ valid = props
  /\ busy = FALSE
  /\ numberFailures = {}
  /\ switchFailures = {}
  /\ textFailures = {}
  /\ call = NoCall
  /\ retval = "None"
  /\ synSent = <<>>
  /\ mark = NoMark
  /\ ops = 0
  /\ lastDecode = NoDecode
  /\ lastCall = NoResult
  /\ exhausted = {}
  /\ indiEvents = 0
  /\ chunks = 0
  /\ calls = 0
  /\ eqCoord = [ra |-> Float(6), dec |-> Float(45)]
  /\ timeUtc = [utc |-> <<2024, 6, 1, 10, 0, 0>>, offset |-> 2, offsetSet |-> TRUE]
  /\ mountInfo = "EQ6"
  /\ trackRate = {}
  /\ slewRate = <<"SLEW_GUIDE", "SLEW_CENTERING", "SLEW_FIND", "SLEW_MAX">>
  /\ exc = ""
  /\ seen = <<>>
  /\ written = NoWrite
  /\ replies = <<>>
  /\ mainpc = at
  /\ serialIn = 0
  /\ tcp = [peer |-> "none", accepted |-> FALSE, in |-> 0]
  /\ device = (at = "select")
  /\ connectPending = FALSE
  /\ everConnected = dev

\* The bridge at its main loop: the device is connected and its properties
\* are defined.
InitSyn == InitSynAt("select", TRUE, TRUE, Props \cup CmdProps \cup MoveProps)

\* The frame of a call getXWithRetry(prop) with the default ntry and delay;
\* cont names where the caller goes on.
NewCall(kind, prop, cont) ==
  [kind |-> kind, prop |-> prop, ntry |-> ntry, gets |-> 0, sleeps |-> 0,
   was |-> <<kind, prop>> \in exhausted, first |-> "none", cont |-> cont]

\* (mutant of WithRetry: a name of the failed set is retried like any other)
WithRetry_noFailFast(c, failures, ok) ==
  IF ok
  THEN [ntry |-> c.ntry, failures |-> failures \ {c.prop}, slept |-> 0,
        returns |-> "p"]
  ELSE IF c.ntry - 1 > 0
  THEN [ntry |-> c.ntry - 1, failures |-> failures, slept |-> 1,
        returns |-> "loop"]
  ELSE [ntry |-> c.ntry - 1, failures |-> failures \cup {c.prop}, slept |-> 1,
        returns |-> "None"]

\* One pass of `while ntry > 0:` in getNumberWithRetry, getSwitchWithRetry
\* and getTextWithRetry (the three differ in the getter and the failed set):
\* ok is p.isValid() for the property just fetched.  The pass returns the
\* property, or None for a name of the failed set, or counts down and
\* sleeps; the pass that brings ntry to 0 leaves the loop, adds the name to
\* the failed set and returns None.
WithRetry(c, failures, ok) ==
  IF ok
  THEN [ntry |-> c.ntry, failures |-> failures \ {c.prop}, slept |-> 0,
        returns |-> "p"]
  ELSE IF c.prop \in failures
  THEN [ntry |-> c.ntry, failures |-> failures, slept |-> 0,
        returns |-> "None"]
  ELSE IF c.ntry - 1 > 0
  THEN [ntry |-> c.ntry - 1, failures |-> failures, slept |-> 1,
        returns |-> "loop"]
  ELSE [ntry |-> c.ntry - 1, failures |-> failures \cup {c.prop}, slept |-> 1,
        returns |-> "None"]

\* The effect of a pass on the frame, and the record of the call when it
\* returns.
AccessorStep(r) ==
  LET ok == call.prop \in valid
      c == [call EXCEPT !.ntry = r.ntry,
                        !.gets = @ + 1,
                        !.sleeps = @ + r.slept,
                        !.first = IF @ # "none" THEN @
                                  ELSE IF ok THEN "valid" ELSE "invalid"]
      key == <<call.kind, call.prop>>
  IN /\ call' = c
     /\ ops' = ops + 1
     /\ IF r.returns = "loop"
        THEN /\ synpc' = "retry"
             /\ UNCHANGED <<retval, lastCall, exhausted>>
        ELSE /\ synpc' = "ret"
             /\ retval' = r.returns
             /\ lastCall' = [kind |-> c.kind, prop |-> c.prop, was |-> c.was,
                             first |-> c.first, gets |-> c.gets,
                             sleeps |-> c.sleeps, result |-> r.returns]
             /\ exhausted' = IF ok THEN exhausted \ {key}
                             ELSE IF c.gets = ntry THEN exhausted \cup {key}
                             ELSE exhausted

\* (mutant of getNumberWithRetry: the name is marked as failed at the first
\* invalid fetch)
getNumberWithRetry_markEarly ==
  /\ synpc = "retry"
  /\ call.kind = "number"
  /\ LET r == WithRetry(call, numberFailures, call.prop \in valid)
     IN /\ numberFailures' = IF call.prop \in valid THEN r.failures
                             ELSE r.failures \cup {call.prop}
        /\ AccessorStep(r)
  /\ UNCHANGED <<stelVars, valVars, exc, seen, written, replies, loopVars, buf, i, reply, mark, lastDecode, chunks, indiVars,
                 switchFailures, textFailures, calls, synSent>>

getNumberWithRetry ==
  /\ synpc = "retry"
  /\ call.kind = "number"
  /\ LET r == WithRetry(call, numberFailures, call.prop \in valid)
     IN /\ numberFailures' = r.failures
        /\ AccessorStep(r)
  /\ UNCHANGED <<stelVars, valVars, exc, seen, written, replies, loopVars, buf, i, reply, mark, lastDecode, chunks, indiVars,
                 switchFailures, textFailures, calls, synSent>>

getSwitchWithRetry ==
  /\ synpc = "retry"
  /\ call.kind = "switch"
  /\ LET r == WithRetry(call, switchFailures, call.prop \in valid)
     IN /\ switchFailures' = r.failures
        /\ AccessorStep(r)
  /\ UNCHANGED <<stelVars, valVars, exc, seen, written, replies, loopVars, buf, i, reply, mark, lastDecode, chunks, indiVars,
                 numberFailures, textFailures, calls, synSent>>

getTextWithRetry ==
  /\ synpc = "retry"
  /\ call.kind = "text"
  /\ LET r == WithRetry(call, textFailures, call.prop \in valid)
     IN /\ textFailures' = r.failures
        /\ AccessorStep(r)
  /\ UNCHANGED <<stelVars, valVars, exc, seen, written, replies, loopVars, buf, i, reply, mark, lastDecode, chunks, indiVars,
                 numberFailures, switchFailures, calls, synSent>>

\* A call of an accessor for one of the names the bridge uses it with, and
\* its return to the caller.
CallAccessor(kind, prop) ==
  /\ synpc = "idle"
  /\ calls < MaxCalls
  /\ calls' = calls + 1
  /\ call' = NewCall(kind, prop, "caller")
  /\ synpc' = "retry"
  /\ UNCHANGED <<stelVars, valVars, exc, seen, written, replies, loopVars, cmdVars, indiVars, failVars, retval, lastCall,
                 exhausted, synSent>>

AccessorReturn ==
  /\ synpc = "ret"
  /\ call.cont = "caller"
  /\ synpc' = "idle"
  /\ UNCHANGED <<stelVars, valVars, exc, seen, written, replies, loopVars, cmdVars, indiVars, failVars, callVars, synSent>>

(***************************************************************************)
(* The SynScan bridge: process_command, one action per command.            *)
(***************************************************************************)
reply_error == <<ord("#")>>

\* process_command(chars, indiclient, logger) is called with a chunk:
\* i = 0, reply = b"".
ReceiveChunk(b) ==
  /\ synpc = "idle"
  /\ chunks < MaxChunks
  /\ chunks' = chunks + 1
  /\ buf' = b
  /\ i' = 0
  /\ reply' = <<>>
  /\ synpc' = "while"
  /\ UNCHANGED <<stelVars, valVars, exc, seen, written, replies, mark, ops, lastDecode, indiVars, failVars, callVars,
                 synSent>>

\* A chunk read from the serial port or the TCP client is given to
\* process_command, wherever the main loop has read it.
Receive(b) ==
  /\ ReceiveChunk(b)
  /\ UNCHANGED loopVars

\* bytes.split(sep) for a separator of one byte.
RECURSIVE split(_, _)
split(bs, sep) ==
  IF \A k \in 1..Len(bs) : bs[k] # sep
  THEN <<bs>>
  ELSE LET at == CHOOSE k \in 1..Len(bs) :
                   bs[k] = sep /\ \A j \in 1..(k - 1) : bs[j] # sep
       IN <<SubSeq(bs, 1, at - 1)>> \o split(SubSeq(bs, at + 1, Len(bs)), sep)

\* The serial branch: `for c in reply.split(b"#")[:-1]: os.write(master,
\* c + b"#")`; the bytes of all the writes.
SerialBytes(r) ==
  LET pieces == split(r, ord("#"))
  IN Flatten([k \in 1..(Len(pieces) - 1) |-> pieces[k] \o <<ord("#")>>])

\* The TCP branch: `if reply != b"": connection.sendall(reply)`.
TcpBytes(r) == IF r # <<>> THEN r ELSE <<>>

\* The transports a chunk comes from: the virtual serial port (master) and a
\* TCP connection.
Transports == {"serial", "tcp"}

\* The main loop writes the reply of process_command back on the transport
\* the chunk came from.
WriteReply(via) ==
  /\ synpc = "returned"
  /\ synpc' = "wrote"
  /\ written' = [via |-> via,
                 bytes |-> IF via = "serial" THEN SerialBytes(reply)
                           ELSE TcpBytes(reply)]
  /\ UNCHANGED replies
  /\ UNCHANGED <<stelVars, valVars, exc, seen, loopVars, cmdVars, indiVars,
                 failVars, callVars, synSent>>

\* The main loop waits for the next chunk (select, or recv on the
\* connection); the history of the commands and of the properties sent is
\* that of one call of process_command.
WaitChunk ==
  /\ synpc = "wrote"
  /\ synpc' = "idle"
  /\ buf' = <<>>
  /\ i' = 0
  /\ reply' = <<>>
  /\ mark' = NoMark
  /\ ops' = 0
  /\ lastDecode' = NoDecode
  /\ synSent' = <<>>
  /\ seen' = <<>>
  /\ written' = NoWrite
  /\ UNCHANGED replies
  /\ UNCHANGED <<stelVars, valVars, exc, loopVars, chunks, indiVars, failVars,
                 callVars>>

(***************************************************************************)
(* The SynScan bridge: the main loop and the peers of its two transports.  *)
(***************************************************************************)
\* The peers never have more chunks under way than the model reads.
PeerMayWrite == chunks + serialIn + tcp.in < MaxChunks

\* What only the peers change.
PeerStep ==
  UNCHANGED <<stelVars, synpc, cmdVars, indiVars, failVars, callVars, synSent,
              valVars, exc, seen, written, replies, mainpc, startVars>>

\* A program writes a chunk to the virtual serial port.
SerialWrite ==
  /\ PeerMayWrite
  /\ serialIn' = serialIn + 1
  /\ PeerStep
  /\ UNCHANGED tcp

\* A client connects to the TCP port: the connection waits in the queue of
\* sock.listen(1).
TcpConnect ==
  /\ tcp.peer = "none"
  /\ ~tcp.accepted
  /\ tcp' = [tcp EXCEPT !.peer = "open"]
  /\ PeerStep
  /\ UNCHANGED serialIn

\* The TCP client sends a chunk.
TcpSend ==
  /\ tcp.peer = "open"
  /\ PeerMayWrite
  /\ tcp' = [tcp EXCEPT !.in = @ + 1]
  /\ PeerStep
  /\ UNCHANGED serialIn

\* The TCP client closes its end.
TcpClose ==
  /\ tcp.peer = "open"
  /\ tcp' = [tcp EXCEPT !.peer = "closed"]
  /\ PeerStep
  /\ UNCHANGED serialIn

\* `if f == master:` after select: chars = os.read(master, 1024) and
\* process_command(chars, ...).
SerialRead(b) ==
  /\ mainpc = "select"
  /\ serialIn > 0
  /\ serialIn' = serialIn - 1
  /\ ReceiveChunk(b)
  /\ UNCHANGED <<mainpc, tcp, startVars>>

\* `if f == sock:` after select: connection, client_address = sock.accept(),
\* and the loop enters `while True: chars = connection.recv(1024)`.  The
\* serial port stands before the socket in rlist, so a chunk that waits on
\* it when select returns is read first.
Accept ==
  /\ mainpc = "select"
  /\ synpc = "idle"
  /\ serialIn = 0
  /\ tcp.peer # "none"
  /\ ~tcp.accepted
  /\ tcp' = [tcp EXCEPT !.accepted = TRUE]
  /\ mainpc' = "recv"
  /\ UNCHANGED <<stelVars, synpc, cmdVars, indiVars, failVars, callVars,
                 synSent, valVars, exc, seen, written, replies, serialIn, startVars>>

\* connection.recv(1024) returns a chunk: process_command(chars, ...).  The
\* call returns only when the client has sent something or has closed.
TcpRecv(b) ==
  /\ mainpc = "recv"
  /\ tcp.in > 0
  /\ tcp' = [tcp EXCEPT !.in = @ - 1]
  /\ ReceiveChunk(b)
  /\ UNCHANGED <<mainpc, serialIn, startVars>>

\* connection.recv(1024) returns b"" after the client has closed: break,
\* connection.close(), and the loop is back at select.
TcpEof ==
  /\ mainpc = "recv"
  /\ synpc = "idle"
  /\ tcp.in = 0
  /\ tcp.peer = "closed"
  /\ tcp' = [peer |-> "none", accepted |-> FALSE, in |-> 0]
  /\ mainpc' = "select"
  /\ UNCHANGED <<stelVars, synpc, cmdVars, indiVars, failVars, callVars,
                 synSent, valVars, exc, seen, written, replies, serialIn, startVars>>

\* The reply goes back where the chunk came from: os.write(master, ...) in
\* the serial branch, connection.sendall(reply) in the connection's loop.
LoopWrite == WriteReply(IF mainpc = "recv" THEN "tcp" ELSE "serial")

\* The chunks of the peers: commands without a property.
LoopChunks ==
  UNION {[1..n -> {ord("#"), ord("J"), ord("K"), ord("V")}] : n \in 1..MaxBuf}

\* `while i < len(buf): cmd = buf[i]` finds the opcode c.
AtOpcode(c) == synpc = "while" /\ i < Len(buf) /\ buf[i + 1] = c

\* (mutant of DeviceLost: only the server connection is looked at)
DeviceLost_serverOnly == ~isconnected

\* `not (device) or not (indiclient.isconnected) or not
\* (device.isConnected())`; device is set before the first chunk is read.
DeviceLost == ~isconnected \/ ~deviceConnected

\* Where the command at buf[i] starts, whether server and device are
\* connected at that moment, and the properties sent before it.
Mark ==
  [cmd |-> buf[i + 1], at |-> i, up |-> isconnected /\ deviceConnected,
   sent |-> Len(synSent)]

\* The branch of a command has appended bytes to the reply and left the
\* index at next, after n calls of INDI; none tells that it ends because an
\* accessor returned None.
Answer(m, next, bytes, n) ==
  /\ reply' = reply \o bytes
  /\ i' = next
  /\ mark' = m
  /\ ops' = n
  /\ lastDecode' = [cmd |-> m.cmd, from |-> m.at, to |-> next,
                    appended |-> bytes, ops |-> n, up |-> m.up,
                    none |-> synpc = "ret" /\ retval = "None"]

\* The end of the branch of a command: decoding goes on at the loop test.
Complete(m, next, bytes, n) ==
  /\ Answer(m, next, bytes, n)
  /\ synpc' = "while"

\* cmd == ord(b"\x00"): pass
cmd_NUL ==
  /\ AtOpcode(ord("NUL"))
  /\ Complete(Mark, i + 1, <<>>, 0)
  /\ UNCHANGED <<stelVars, valVars, exc, seen, written, replies, loopVars, buf, chunks, indiVars, failVars, callVars, synSent>>

\* cmd == ord("#")
cmd_Hash ==
  /\ AtOpcode(ord("#"))
  /\ Complete(Mark, i + 1, <<ord("#")>>, 0)
  /\ UNCHANGED <<stelVars, valVars, exc, seen, written, replies, loopVars, buf, chunks, indiVars, failVars, callVars, synSent>>

\* (mutant of cmd_K: the echo needs the device as the other commands do)
cmd_K_needsDevice ==
  /\ AtOpcode(ord("K"))
  /\ Complete(Mark, i + 2,
              IF DeviceLost THEN reply_error
              ELSE PySlice(buf, i + 1, i + 2) \o <<ord("#")>>,
              0)
  /\ UNCHANGED <<stelVars, valVars, exc, seen, written, replies, loopVars, buf, chunks, indiVars, failVars, callVars, synSent>>

\* cmd == ord("K"): the echo, and `i += 1` for the byte echoed
cmd_K ==
  /\ AtOpcode(ord("K"))
  /\ Complete(Mark, i + 2,
              IF ~isconnected THEN reply_error
              ELSE PySlice(buf, i + 1, i + 2) \o <<ord("#")>>,
              0)
  /\ UNCHANGED <<stelVars, valVars, exc, seen, written, replies, loopVars, buf, chunks, indiVars, failVars, callVars, synSent>>

\* The device is lost: `return reply + reply_error`.
LostDevice ==
  /\ synpc = "while"
  /\ i < Len(buf)
  /\ buf[i + 1] \notin {ord("NUL"), ord("#"), ord("K")}
  /\ DeviceLost
  /\ Answer(Mark, i + 1, reply_error, 0)
  /\ synpc' = "returned"
  /\ UNCHANGED <<stelVars, valVars, exc, seen, written, replies, loopVars, buf, chunks, indiVars, failVars, callVars, synSent>>

\* The guard of the branches after the connection test.
Connected(c) ==
  /\ AtOpcode(c)
  /\ ~DeviceLost

\* cmd == ord("J")
cmd_J ==
  /\ Connected(ord("J"))
  /\ Complete(Mark, i + 1, <<1, ord("#")>>, 0)
  /\ UNCHANGED <<stelVars, valVars, exc, seen, written, replies, loopVars, buf, chunks, indiVars, failVars, callVars, synSent>>

\* cmd == ord("V"): reply += b"032507"
cmd_V ==
  /\ Connected(ord("V"))
  /\ Complete(Mark, i + 1, <<48, 51, 50, 53, 48, 55>>, 0)
  /\ UNCHANGED <<stelVars, valVars, exc, seen, written, replies, loopVars, buf, chunks, indiVars, failVars, callVars, synSent>>

\* A branch calls a retry accessor.
CallFrom(m, next, kind, prop, cont) ==
  /\ i' = next
  /\ mark' = m
  /\ call' = NewCall(kind, prop, cont)
  /\ synpc' = "retry"

\* cmd == ord("L"): p = getNumberWithRetry("EQUATORIAL_EOD_COORD")
cmd_L ==
  /\ Connected(ord("L"))
  /\ CallFrom(Mark, i + 1, "number", "EQUATORIAL_EOD_COORD", "L")
  /\ ops' = 0
  /\ UNCHANGED <<stelVars, valVars, exc, seen, written, replies, loopVars, buf, reply, lastDecode, chunks, indiVars, failVars,
                 retval, lastCall, exhausted, calls, synSent>>

\* 'L' after the accessor: the error reply, or "1#" when busy, else "0#".
cmd_L_reply ==
  /\ synpc = "ret"
  /\ call.cont = "L"
  /\ Complete(mark, i,
              IF retval = "None" THEN reply_error
              ELSE IF busy THEN <<ord("1"), ord("#")>>
              ELSE <<ord("0"), ord("#")>>,
              ops)
  /\ UNCHANGED <<stelVars, valVars, exc, seen, written, replies, loopVars, buf, chunks, indiVars, failVars, callVars, synSent>>

\* cmd == ord("M"): p = getNumberWithRetry("EQUATORIAL_EOD_COORD")
cmd_M ==
  /\ Connected(ord("M"))
  /\ CallFrom(Mark, i + 1, "number", "EQUATORIAL_EOD_COORD", "M")
  /\ ops' = 0
  /\ UNCHANGED <<stelVars, valVars, exc, seen, written, replies, loopVars, buf, reply, lastDecode, chunks, indiVars, failVars,
                 retval, lastCall, exhausted, calls, synSent>>

\* (mutant of cmd_M_state: the abort switch is fetched whatever the state)
cmd_M_state_always ==
  /\ synpc = "ret"
  /\ call.cont = "M"
  /\ IF retval # "None"
     THEN /\ CallFrom(mark, i, "switch", "TELESCOPE_ABORT_MOTION", "M_abort")
          /\ UNCHANGED <<reply, ops, lastDecode>>
     ELSE /\ Complete(mark, i, reply_error, ops)
          /\ UNCHANGED call
  /\ UNCHANGED <<stelVars, valVars, exc, seen, written, replies, loopVars, buf, chunks, indiVars, failVars, retval, lastCall,
                 exhausted, calls, synSent>>

\* 'M' after the first accessor: the error reply, or the abort switch is
\* fetched when the mount is busy, or "#".
cmd_M_state ==
  /\ synpc = "ret"
  /\ call.cont = "M"
  /\ IF retval # "None" /\ busy
     THEN /\ CallFrom(mark, i, "switch", "TELESCOPE_ABORT_MOTION", "M_abort")
          /\ UNCHANGED <<reply, ops, lastDecode>>
     ELSE /\ Complete(mark, i,
                      IF retval = "None" THEN reply_error ELSE <<ord("#")>>,
                      ops)
          /\ UNCHANGED call
  /\ UNCHANGED <<stelVars, valVars, exc, seen, written, replies, loopVars, buf, chunks, indiVars, failVars, retval, lastCall,
                 exhausted, calls, synSent>>

\* 'M' after the second accessor: the error reply, or the switch is set ON
\* and sent, and "#".
cmd_M_abort ==
  /\ synpc = "ret"
  /\ call.cont = "M_abort"
  /\ IF retval = "None"
     THEN /\ Complete(mark, i, reply_error, ops)
          /\ UNCHANGED synSent
     ELSE /\ synSent' = Append(synSent, [prop |-> "TELESCOPE_ABORT_MOTION",
                                         on |-> {0}])
          /\ Complete(mark, i, <<ord("#")>>, ops + 1)
  /\ UNCHANGED <<stelVars, valVars, exc, seen, written, replies, loopVars, buf, chunks, indiVars, failVars, callVars>>

\* The index after the `else` branch: `i += 1` a second time.
UnknownAdvance(at) == at + 1 + 1

\* else: (unknown command)
UnknownCommand ==
  /\ synpc = "while"
  /\ i < Len(buf)
  /\ buf[i + 1] \notin OpcodeTable
  /\ ~DeviceLost
  /\ Complete(Mark, UnknownAdvance(i), reply_error, 0)
  /\ UNCHANGED <<stelVars, valVars, exc, seen, written, replies, loopVars, buf, chunks, indiVars, failVars, callVars, synSent>>

\* The loop test fails: `return reply`.
Return ==
  /\ synpc = "while"
  /\ i >= Len(buf)
  /\ synpc' = "returned"
  /\ UNCHANGED <<stelVars, valVars, exc, seen, written, replies, loopVars, cmdVars, indiVars, failVars, callVars, synSent>>

(***************************************************************************)
(* The INDI thread of the SynScan bridge and the INDI state it reports.    *)
(* A change while the bridge waits for a chunk or for a caller is seen by   *)
(* the bridge as the same change right after the chunk or the call, so the  *)
(* changes are taken while a chunk or a call is processed.                  *)
(***************************************************************************)
IndiEvent ==
  /\ synpc \notin {"idle", "returned", "wrote"}
  /\ indiEvents < MaxIndiEvents
  /\ indiEvents' = indiEvents + 1

\* IndiClient.serverConnected
IndiClient_serverConnected ==
  /\ IndiEvent
  /\ ~isconnected
  /\ isconnected' = TRUE
  /\ UNCHANGED <<stelVars, valVars, exc, seen, written, replies, loopVars, synpc, cmdVars, deviceConnected, valid, busy,
                 failVars, callVars, synSent>>

\* IndiClient.serverDisconnected
IndiClient_serverDisconnected ==
  /\ IndiEvent
  /\ isconnected
  /\ isconnected' = FALSE
  /\ UNCHANGED <<stelVars, valVars, exc, seen, written, replies, loopVars, synpc, cmdVars, deviceConnected, valid, busy,
                 failVars, callVars, synSent>>

\* The device connects or disconnects: device.isConnected() changes.
DeviceConnection ==
  /\ IndiEvent
  /\ deviceConnected' = ~deviceConnected
  /\ everConnected' = (everConnected \/ ~deviceConnected)
  /\ UNCHANGED <<stelVars, valVars, exc, seen, written, replies, mainpc, serialIn, tcp,
                 device, connectPending, synpc, cmdVars, isconnected, valid, busy, failVars,
                 callVars, synSent>>

\* A property is defined or deleted: isValid() of its name changes.
PropertyValidity(prop) ==
  /\ IndiEvent
  /\ valid' = IF prop \in valid THEN valid \ {prop} ELSE valid \cup {prop}
  /\ UNCHANGED <<stelVars, valVars, exc, seen, written, replies, loopVars, synpc, cmdVars, isconnected, deviceConnected, busy,
                 failVars, callVars, synSent>>

\* EQUATORIAL_EOD_COORD enters or leaves the state IPS_BUSY.
CoordState ==
  /\ IndiEvent
  /\ busy' = ~busy
  /\ UNCHANGED <<stelVars, valVars, exc, seen, written, replies, loopVars, synpc, cmdVars, isconnected, deviceConnected, valid,
                 failVars, callVars, synSent>>

(***************************************************************************)
(* The SynScan bridge: the commands with a payload or a property value.    *)
(***************************************************************************)
\* A statement of the running branch raises: process_command is left by the
\* exception, which nothing in the bridge catches.
Raise(m, next, name) ==
  /\ synpc' = "raised"
  /\ exc' = name
  /\ i' = next
  /\ mark' = m

\* cmd == ord("T"): `mode = buf[i]` raises IndexError when the opcode is the
\* last byte; else p = getSwitchWithRetry("TELESCOPE_TRACK_RATE").
cmd_T ==
  /\ Connected(ord("T"))
  /\ IF i + 1 >= Len(buf)
     THEN /\ Raise(Mark, i + 1, "IndexError")
          /\ UNCHANGED <<call, ops>>
     ELSE /\ CallFrom(Mark, i + 2, "switch", "TELESCOPE_TRACK_RATE", "T")
          /\ ops' = 0
          /\ UNCHANGED exc
  /\ UNCHANGED <<stelVars, valVars, seen, written, replies, loopVars, buf, reply, lastDecode, chunks, indiVars,
                 failVars, retval, lastCall, exhausted, calls, synSent>>

\* The switches of TELESCOPE_TRACK_RATE the branch looks at: range(4).
TrackSwitches == 0..3

\* 'T' after the accessor.  Mode '2' or '3' with the first switch OFF:
\* p.reset(), then p[0].setState(ON) raises NameError (no name ON exists in
\* the module).  Another mode with a switch ON: p.reset() and the property
\* is sent.  Then "#".
cmd_T_set ==
  /\ synpc = "ret"
  /\ call.cont = "T"
  /\ LET mode == buf[i]
     IN IF retval = "None"
        THEN /\ Complete(mark, i, reply_error, ops)
             /\ UNCHANGED <<trackRate, synSent, exc>>
        ELSE IF mode \in {ord("2"), ord("3")}
        THEN IF 0 \notin trackRate
             THEN /\ trackRate' = {}
                  /\ Raise(mark, i, "NameError")
                  /\ UNCHANGED <<reply, ops, lastDecode, synSent>>
             ELSE /\ Complete(mark, i, <<ord("#")>>, ops)
                  /\ UNCHANGED <<trackRate, synSent, exc>>
        ELSE IF trackRate \cap TrackSwitches # {}
             THEN /\ trackRate' = {}
                  /\ synSent' = Append(synSent,
                                       [prop |-> "TELESCOPE_TRACK_RATE", on |-> {}])
                  /\ Complete(mark, i, <<ord("#")>>, ops + 1)
                  /\ UNCHANGED exc
             ELSE /\ Complete(mark, i, <<ord("#")>>, ops)
                  /\ UNCHANGED <<trackRate, synSent, exc>>
  /\ UNCHANGED <<stelVars, slewRate, eqCoord, timeUtc, mountInfo, seen, written, replies, loopVars, buf, chunks, indiVars,
                 failVars, callVars>>

\* TELESCOPE_TRACK_RATE is updated by the driver.
TrackRateUpdate(on) ==
  /\ IndiEvent
  /\ on # trackRate
  /\ trackRate' = on
  /\ UNCHANGED <<stelVars, slewRate, eqCoord, timeUtc, mountInfo, exc, seen, written, replies, loopVars, synpc, cmdVars,
                 isconnected, deviceConnected, valid, busy, failVars, callVars,
                 synSent>>

\* skywatcher_models, and the default for a name that is not in it.
skywatcher_models(name) ==
  CASE name = "EQ6" -> 0     [] name = "HEQ5" -> 1   [] name = "EQ5" -> 2
    [] name = "EQ3" -> 3     [] name = "EQ8" -> 4    [] name = "AZ-EQ6" -> 5
    [] name = "AZ-EQ5" -> 6  [] OTHER -> 0

\* cmd == ord("m"): p = getTextWithRetry("MOUNTINFORMATION")
cmd_m ==
  /\ Connected(ord("m"))
  /\ CallFrom(Mark, i + 1, "text", "MOUNTINFORMATION", "m")
  /\ ops' = 0
  /\ UNCHANGED <<stelVars, valVars, exc, seen, written, replies, loopVars, buf, reply, lastDecode, chunks,
                 indiVars, failVars, retval, lastCall, exhausted, calls,
                 synSent>>

\* 'm' after the accessor: b"!" when the property is missing, else the
\* model byte; then "#".
cmd_m_reply ==
  /\ synpc = "ret"
  /\ call.cont = "m"
  /\ Complete(mark, i,
              (IF retval = "None" THEN <<ord("!")>>
               ELSE <<skywatcher_models(mountInfo)>>) \o <<ord("#")>>,
              ops)
  /\ UNCHANGED <<stelVars, valVars, exc, seen, written, replies, loopVars, buf, chunks, indiVars, failVars,
                 callVars, synSent>>

\* MOUNTINFORMATION is updated by the driver.
MountInfoUpdate(name) ==
  /\ IndiEvent
  /\ name # mountInfo
  /\ mountInfo' = name
  /\ UNCHANGED <<stelVars, slewRate, eqCoord, timeUtc, trackRate, exc, seen, written, replies, loopVars, synpc, cmdVars,
                 isconnected, deviceConnected, valid, busy, failVars, callVars,
                 synSent>>

\* datetime keeps a date as its proleptic Gregorian ordinal: the days from
\* 1970-01-01 to the date <<y, m, d>>.
DaysFromCivil(y, m, d) ==
  LET yy  == IF m <= 2 THEN y - 1 ELSE y
      era == yy \div 400
      yoe == yy - era * 400
      mp  == IF m > 2 THEN m - 3 ELSE m + 9
      doy == (153 * mp + 2) \div 5 + d - 1
      doe == yoe * 365 + yoe \div 4 - yoe \div 100 + doy
  IN era * 146097 + doe - 719468

\* The date <<y, m, d>> of an ordinal.
CivilFromDays(z) ==
  LET zz  == z + 719468
      era == zz \div 146097
      doe == zz - era * 146097
      yoe == (doe - doe \div 1460 + doe \div 36524 - doe \div 146096) \div 365
      doy == doe - (365 * yoe + yoe \div 4 - yoe \div 100)
      mp  == (5 * doy + 2) \div 153
      d   == doy - (153 * mp + 2) \div 5 + 1
      m   == IF mp < 10 THEN mp + 3 ELSE mp - 9
  IN <<yoe + era * 400 + (IF m <= 2 THEN 1 ELSE 0), m, d>>

\* calendar.monthrange: the days of month m of year y.
DaysInMonth(y, m) ==
  IF m = 2
  THEN (IF y % 4 = 0 /\ (y % 100 # 0 \/ y % 400 = 0) THEN 29 ELSE 28)
  ELSE IF m \in {4, 6, 9, 11} THEN 30 ELSE 31

\* datetime.datetime(y, mth, d, h, m, s, 0, None) accepts the fields, else
\* it raises ValueError.  A date is <<y, mth, d, h, m, s>>.
ValidDateTime(t) ==
  /\ t[1] \in 1..9999
  /\ t[2] \in 1..12
  /\ t[3] \in 1..DaysInMonth(t[1], t[2])
  /\ t[4] \in 0..23
  /\ t[5] \in 0..59
  /\ t[6] \in 0..59

\* t + datetime.timedelta(hours=n), n of either sign.
AddHours(t, n) ==
  LET hours == t[4] + n
      date  == CivilFromDays(DaysFromCivil(t[1], t[2], t[3]) + hours \div 24)
  IN <<date[1], date[2], date[3], hours % 24, t[5], t[6]>>

\* cmd == ord("H"): the eight names are unpacked from buf[i:i+8], which
\* raises ValueError on a shorter slice and leaves i alone; then i += 8 and
\* datetime(...) raises ValueError on fields that are no date; then
\* p = getTextWithRetry("TIME_UTC").
cmd_H ==
  /\ Connected(ord("H"))
  /\ LET data == PySlice(buf, i + 1, i + 9)
     IN /\ seen' = data
        /\ IF Len(data) # 8
           THEN /\ Raise(Mark, i + 1, "ValueError")
                /\ UNCHANGED <<call, ops>>
           ELSE IF ~ValidDateTime(<<data[6] + 2000, data[4], data[5],
                                    data[1], data[2], data[3]>>)
           THEN /\ Raise(Mark, i + 9, "ValueError")
                /\ UNCHANGED <<call, ops>>
           ELSE /\ CallFrom(Mark, i + 9, "text", "TIME_UTC", "H")
                /\ ops' = 0
                /\ UNCHANGED exc
  /\ UNCHANGED <<stelVars, valVars, written, replies, loopVars, buf, reply, lastDecode, chunks,
                 indiVars, failVars, retval, lastCall, exhausted, calls,
                 synSent>>

\* 'H' after the accessor: `offset < 0` never holds for a byte, so that
\* utc = lt - timedelta(hours=offset) with the byte as it came;
\* p[0].setText(utc.isoformat()), p[1].setText(str(offset)), the property is
\* sent, then "#".
cmd_H_set ==
  /\ synpc = "ret"
  /\ call.cont = "H"
  /\ LET data   == PySlice(buf, i - 8, i)
         lt     == <<data[6] + 2000, data[4], data[5], data[1], data[2], data[3]>>
         offset == IF data[7] < 0 THEN 256 - data[7] ELSE data[7]
         utc    == AddHours(lt, 0 - offset)
     IN IF retval = "None"
        THEN /\ Complete(mark, i, reply_error, ops)
             /\ UNCHANGED <<timeUtc, synSent>>
        ELSE /\ timeUtc' = [utc |-> utc, offset |-> offset, offsetSet |-> TRUE]
             /\ synSent' = Append(synSent, [prop |-> "TIME_UTC", utc |-> utc,
                                            offset |-> offset])
             /\ Complete(mark, i, <<ord("#")>>, ops + 1)
  /\ UNCHANGED <<stelVars, slewRate, eqCoord, mountInfo, trackRate, exc, seen, written, replies, loopVars, buf, chunks,
                 indiVars, failVars, callVars>>

\* cmd == ord("h"): p = getTextWithRetry("TIME_UTC")
cmd_h ==
  /\ Connected(ord("h"))
  /\ CallFrom(Mark, i + 1, "text", "TIME_UTC", "h")
  /\ ops' = 0
  /\ UNCHANGED <<stelVars, valVars, exc, seen, written, replies, loopVars, buf, reply, lastDecode, chunks,
                 indiVars, failVars, retval, lastCall, exhausted, calls,
                 synSent>>

\* struct.pack("B", v) accepts v, else it raises struct.error.
PacksAsB(v) == v \in 0..255

\* 'h' after the accessor: offset = int(p[1].getText()) or 0 for an empty
\* text, utc + timedelta(hours=offset), `if offset < 0: offset = 256 -
\* offset`, and struct.pack of the eight fields, then "#".
cmd_h_reply ==
  /\ synpc = "ret"
  /\ call.cont = "h"
  /\ IF retval = "None"
     THEN /\ Complete(mark, i, reply_error, ops)
          /\ UNCHANGED <<exc, seen>>
     ELSE LET offset == IF timeUtc.offsetSet THEN timeUtc.offset ELSE 0
              utc    == AddHours(timeUtc.utc, offset)
              packed == IF offset < 0 THEN 256 - offset ELSE offset
              fields == <<utc[4], utc[5], utc[6], utc[2], utc[3],
                          utc[1] - 2000, packed, 0>>
          IN /\ seen' = <<timeUtc.utc, offset>>
             /\ IF \A k \in 1..8 : PacksAsB(fields[k])
                THEN /\ Complete(mark, i, fields \o <<ord("#")>>, ops)
                     /\ UNCHANGED exc
                ELSE /\ Raise(mark, i, "struct.error")
                     /\ UNCHANGED <<reply, ops, lastDecode>>
  /\ UNCHANGED <<stelVars, valVars, written, replies, loopVars, buf, chunks, indiVars, failVars,
                 callVars, synSent>>

\* The offsets the driver reports in TIME_UTC: west, none, east.
OffsetMenu == {-5, 0, 2}

\* TIME_UTC is updated by the driver.
TimeUpdate(o) ==
  /\ IndiEvent
  /\ o # timeUtc.offset
  /\ timeUtc' = [timeUtc EXCEPT !.offset = o, !.offsetSet = TRUE]
  /\ UNCHANGED <<stelVars, slewRate, eqCoord, mountInfo, trackRate, exc, seen, written, replies, loopVars, synpc,
                 cmdVars, isconnected, deviceConnected, valid, busy, failVars,
                 callVars, synSent>>

(***************************************************************************)
(* Specifications: the Stellarium bridge with its clients (Spec) and with  *)
(* the INDI callbacks and signals (SpecIndi), process_command (SpecSyn)    *)
(* and the retry accessors called directly (SpecRetry).                    *)
(***************************************************************************)
MainLoop ==
  \/ LoopTest
  \/ \E ok \in BOOLEAN : waitServer(ok)
  \/ IfTelescope
  \/ BroadcastLoad
  \/ BroadcastSend
  \/ GotoStep
  \/ Select
  \/ ReadStep
  \/ WriteStep
  \/ EndIteration

\* The bridge with its Stellarium clients: the INDI server announces the
\* telescope and then stays silent, and no signal arrives.
NextStel ==
  \/ MainLoop
  \/ ClientConnect(MaxClients)
  \/ \E c \in Socks, f \in FrameMenu : ClientSend(c, f)
  \/ \E c \in Socks : ClientClose(c)
  \/ \E c \in Socks : SocketError(c)
  \/ \E d \in BOOLEAN : newProperty_CONNECTION(d)

\* The bridge with one Stellarium client that sends frames of every type.
NextSkip ==
  \/ MainLoop
  \/ ClientConnect(MaxListeners)
  \/ \E f \in OtherFrames \cup FrameMenu : ClientSend(1, f)
  \/ \E d \in BOOLEAN : newProperty_CONNECTION(d)

\* Frames whose length field is smaller than the header of 4 bytes: length
\* 0 with type 1, length 0 with type 0, length 2 and length 3.
ShortFrames ==
  { to_le(0, 2) \o to_le(1, 2), to_le(0, 2) \o to_le(0, 2),
    to_le(2, 2) \o to_le(1, 2), to_le(3, 2) \o to_le(1, 2) }

\* The bridge with one Stellarium client that sends goto frames and frames
\* with a short length field.
NextShort ==
  \/ MainLoop
  \/ ClientConnect(MaxListeners)
  \/ \E f \in ShortFrames \cup FrameMenu : ClientSend(1, f)
  \/ \E d \in BOOLEAN : newProperty_CONNECTION(d)

\* The bridge with one Stellarium client that sends goto frames.
NextGoto ==
  \/ MainLoop
  \/ ClientConnect(MaxListeners)
  \/ \E f \in FrameMenu : ClientSend(1, f)
  \/ \E d \in BOOLEAN : newProperty_CONNECTION(d)

\* The bridge with an INDI server that goes away and comes back; a
\* Stellarium client listens.
NextWait ==
  \/ MainLoop
  \/ ClientConnect(MaxListeners)
  \/ \E d \in BOOLEAN : newProperty_CONNECTION(d)
  \/ serverDisconnected

\* The bridge with the INDI callbacks and the signals: Stellarium clients
\* connect and listen but send nothing.
NextIndi ==
  \/ MainLoop
  \/ Cleanup
  \/ ClientConnect(MaxListeners)
  \/ \E d \in BOOLEAN : newProperty_CONNECTION(d)
  \/ \E a, b \in BOOLEAN : updateProperty_CONNECTION(a, b)
  \/ \E coord \in CoordMenu : updateProperty_RA(coord)
  \/ updateProperty_DEC
  \/ \E utc \in {"2024-06-01T10:00:00"} : updateProperty_TIME_UTC(utc)
  \/ serverDisconnected
  \/ terminate
  \/ KeyboardInterrupt

(***************************************************************************)
(* The SynScan bridge: the statements before the main loop.                *)
(***************************************************************************)
TELESCOPE_SIMULATION == TRUE
TELESCOPE_SIMPROP == "SIMULATION"

\* The switch properties the start of the script fetches.
StartProps == {TELESCOPE_SIMPROP, "CONNECTION"}

\* What a statement before the loop leaves alone.
StartStep ==
  UNCHANGED <<stelVars, synpc, cmdVars, failVars, callVars, valVars, exc,
              seen, written, replies, serialIn, tcp, busy, indiEvents>>

\* `serverconnected = indiclient.connectServer()` and the loop that calls
\* it again after 2 s; the callback serverConnected sets isconnected.
Start_connectServer(ok) ==
  /\ mainpc = "connectServer"
  /\ isconnected' = ok
  /\ mainpc' = IF ok THEN "getDevice" ELSE "connectServer"
  /\ StartStep
  /\ UNCHANGED <<deviceConnected, valid, synSent, startVars>>

\* `device = indiclient.getDevice(TELESCOPE_DEVICE)` and its loop: left
\* once the server has defined the device.
Start_getDevice ==
  /\ mainpc = "getDevice"
  /\ device
  /\ mainpc' = "ifConnected"
  /\ StartStep
  /\ UNCHANGED <<isconnected, deviceConnected, valid, synSent, startVars>>

\* `if not (device.isConnected()):` (the outer test).
Start_ifConnected ==
  /\ mainpc = "ifConnected"
  /\ mainpc' = IF deviceConnected THEN "open"
               ELSE IF TELESCOPE_SIMULATION THEN "simulation"
               ELSE "getConnect"
  /\ StartStep
  /\ UNCHANGED <<isconnected, deviceConnected, valid, synSent, startVars>>

\* `if TELESCOPE_SIMULATION:` the loop on getSwitch(TELESCOPE_SIMPROP), left
\* once the property is defined; ENABLE ON, DISABLE OFF and
\* sendNewProperty(device_sim).
Start_simulation ==
  /\ mainpc = "simulation"
  /\ TELESCOPE_SIMPROP \in valid
  /\ synSent' = Append(synSent, [prop |-> TELESCOPE_SIMPROP, on |-> {0}])
  /\ mainpc' = "getConnect"
  /\ StartStep
  /\ UNCHANGED <<isconnected, deviceConnected, valid, startVars>>

\* `if not (device.isConnected()): device_connect = device.getSwitch(
\* "CONNECTION")` and its loop; device_connect is not assigned when the
\* device is connected at the test.
Start_getConnect ==
  /\ mainpc = "getConnect"
  /\ ~deviceConnected => "CONNECTION" \in valid
  /\ mainpc' = IF deviceConnected THEN "sendConnect_unset" ELSE "sendConnect"
  /\ StartStep
  /\ UNCHANGED <<isconnected, deviceConnected, valid, synSent, startVars>>

\* `if not (device.isConnected()):` CONNECT ON, DISCONNECT OFF and
\* sendNewProperty(device_connect); a NameError when device_connect was
\* not assigned.
Start_sendConnect ==
  /\ mainpc \in {"sendConnect", "sendConnect_unset"}
  /\ IF deviceConnected
       THEN /\ mainpc' = "waitConnected"
            /\ UNCHANGED <<synSent, connectPending>>
       ELSE IF mainpc = "sendConnect_unset"
       THEN /\ mainpc' = "raised"
            /\ UNCHANGED <<synSent, connectPending>>
       ELSE /\ mainpc' = "waitConnected"
            /\ synSent' = Append(synSent, [prop |-> "CONNECTION", on |-> {0}])
            /\ connectPending' = TRUE
  /\ StartStep
  /\ UNCHANGED <<isconnected, deviceConnected, valid, device, everConnected>>

\* (mutant of Start_waitConnected: the loop is left after one sleep)
Start_waitConnected_once ==
  /\ mainpc = "waitConnected"
  /\ mainpc' = "open"
  /\ StartStep
  /\ UNCHANGED <<isconnected, deviceConnected, valid, synSent, startVars>>

\* `while not (device.isConnected()): time.sleep(0.2)`.
Start_waitConnected ==
  /\ mainpc = "waitConnected"
  /\ deviceConnected
  /\ mainpc' = "open"
  /\ StartStep
  /\ UNCHANGED <<isconnected, deviceConnected, valid, synSent, startVars>>

\* pty.openpty() and the symbolic link, socket, bind and listen: the two
\* endpoints exist and the loop begins.  What the start has sent is not
\* part of the history of a chunk.
Start_open ==
  /\ mainpc = "open"
  /\ mainpc' = "select"
  /\ synSent' = <<>>
  /\ StartStep
  /\ UNCHANGED <<isconnected, deviceConnected, valid, startVars>>

\* The endpoints of the bridge exist.
EndpointsOpen == mainpc \in {"select", "recv"}

\* The INDI server defines the device.
DeviceDefined ==
  /\ isconnected
  /\ ~device
  /\ device' = TRUE
  /\ StartStep
  /\ UNCHANGED <<mainpc, isconnected, deviceConnected, valid, synSent,
                 connectPending, everConnected>>

\* The INDI server defines a property of the device.
PropertyDefined(prop) ==
  /\ device
  /\ prop \notin valid
  /\ valid' = valid \cup {prop}
  /\ StartStep
  /\ UNCHANGED <<mainpc, isconnected, deviceConnected, synSent, startVars>>

\* The driver answers the CONNECTION request: the device is connected.
DriverConnects ==
  /\ connectPending
  /\ connectPending' = FALSE
  /\ deviceConnected' = TRUE
  /\ everConnected' = TRUE
  /\ StartStep
  /\ UNCHANGED <<mainpc, isconnected, valid, synSent, device>>

\* Another client connects or disconnects the device while the bridge
\* starts.
OtherClientSets(on) ==
  /\ device
  /\ ~EndpointsOpen
  /\ deviceConnected # on
  /\ indiEvents < MaxIndiEvents
  /\ indiEvents' = indiEvents + 1
  /\ deviceConnected' = on
  /\ everConnected' = (everConnected \/ on)
  /\ UNCHANGED <<stelVars, synpc, cmdVars, failVars, callVars, valVars, exc,
                 seen, written, replies, serialIn, tcp, busy, mainpc, isconnected,
                 valid, synSent, device, connectPending>>

(***************************************************************************)
(* The SynScan bridge: process_command called on a, on b and on a + b.     *)
(***************************************************************************)
\* Complete commands: NUL, '#', 'J', 'V', 'K' with its byte, and a byte that
\* is no opcode.
Commands ==
  { <<ord("NUL")>>, <<ord("#")>>, <<ord("J")>>, <<ord("V")>>,
    <<ord("K"), 65>>, <<255>> }

\* process_command(chars, ...) is called by a caller that keeps the reply:
\* first on a command a, then on a command b, then on a + b.
CallProcess(b) ==
  /\ synpc = "idle"
  /\ CASE Len(replies) < 2 -> b \in Commands
       [] Len(replies) = 2 -> b = replies[1].buf \o replies[2].buf
       [] OTHER -> FALSE
  /\ buf' = b
  /\ i' = 0
  /\ reply' = <<>>
  /\ synpc' = "while"
  /\ UNCHANGED <<stelVars, valVars, exc, seen, written, replies, loopVars,
                 mark, ops, lastDecode, chunks, indiVars, failVars, callVars,
                 synSent>>

\* process_command has returned: the caller keeps the reply.
ProcessReturn ==
  /\ synpc = "returned"
  /\ replies' = Append(replies, [buf |-> buf, reply |-> reply])
  /\ synpc' = "idle"
  /\ buf' = <<>>
  /\ i' = 0
  /\ reply' = <<>>
  /\ mark' = NoMark
  /\ ops' = 0
  /\ lastDecode' = NoDecode
  /\ UNCHANGED <<stelVars, valVars, exc, seen, written, loopVars, chunks,
                 indiVars, failVars, callVars, synSent>>

NextConcat ==
  \/ \E a \in Commands, b \in Commands \cup {<<>>} : CallProcess(a \o b)
  \/ cmd_NUL
  \/ cmd_Hash
  \/ cmd_K
  \/ LostDevice
  \/ cmd_J
  \/ cmd_V
  \/ UnknownCommand
  \/ Return
  \/ ProcessReturn

\* The steps of the bridge, which runs whenever it can.
BridgeStep ==
  \/ \E b \in LoopChunks : SerialRead(b)
  \/ Accept
  \/ \E b \in LoopChunks : TcpRecv(b)
  \/ TcpEof
  \/ cmd_Hash
  \/ cmd_K
  \/ cmd_J
  \/ cmd_V
  \/ Return
  \/ LoopWrite
  \/ WaitChunk

NextLoop ==
  \/ BridgeStep
  \/ SerialWrite
  \/ TcpConnect
  \/ TcpSend
  \/ TcpClose

NextStart ==
  \/ \E ok \in BOOLEAN : Start_connectServer(ok)
  \/ Start_getDevice
  \/ Start_ifConnected
  \/ Start_simulation
  \/ Start_getConnect
  \/ Start_sendConnect
  \/ Start_waitConnected
  \/ Start_open
  \/ DeviceDefined
  \/ \E prop \in StartProps : PropertyDefined(prop)
  \/ DriverConnects
  \/ \E on \in BOOLEAN : OtherClientSets(on)
  \/ NextLoop

NextSyn ==
  \/ \E b \in BufMenu : Receive(b)
  \/ cmd_NUL
  \/ cmd_Hash
  \/ cmd_K
  \/ LostDevice
  \/ cmd_J
  \/ cmd_V
  \/ cmd_L
  \/ cmd_L_reply
  \/ cmd_M
  \/ cmd_M_state
  \/ cmd_M_abort
  \/ UnknownCommand
  \/ Return
  \/ \E via \in Transports : WriteReply(via)
  \/ WaitChunk
  \/ getNumberWithRetry
  \/ getSwitchWithRetry
  \/ IndiClient_serverConnected
  \/ IndiClient_serverDisconnected
  \/ DeviceConnection
  \/ \E prop \in NumberProps \cup SwitchProps : PropertyValidity(prop)
  \/ CoordState

\* hex(n)[2:] of an int n >= 0 below 2^30: the lower-case digits.
RECURSIVE hex(_)
hex(n) ==
  LET d == n % 16
      c == IF d < 10 THEN 48 + d ELSE 87 + d
  IN IF n < 16 THEN <<c>> ELSE hex(n \div 16) \o <<c>>

\* str.zfill(width) and str.upper() on the character codes.
zfill(str, width) ==
  IF Len(str) >= width THEN str
  ELSE [k \in 1..(width - Len(str)) |-> 48] \o str
upper(str) ==
  [k \in 1..Len(str) |-> IF str[k] \in 97..122 THEN str[k] - 32 ELSE str[k]]

\* hex(int((deg * 2**24) / 360.0))[2:].zfill(6).upper() + "00"
CoordHex(deg) ==
  LET v == FloatInt(FloatDiv(FloatMul(deg, FloatOf(BShl(<<1>>, 24))),
                             Float(360)))
  IN upper(zfill(hex(BToInt(v.m)), 6)) \o <<48, 48>>

\* cmd in [ord("e"), ord("E")]: p = getNumberWithRetry("EQUATORIAL_EOD_COORD")
cmd_e ==
  /\ \E c \in {ord("e"), ord("E")} : Connected(c)
  /\ CallFrom(Mark, i + 1, "number", "EQUATORIAL_EOD_COORD", "e")
  /\ ops' = 0
  /\ UNCHANGED <<stelVars, valVars, exc, seen, written, replies, loopVars, buf, reply, lastDecode,
                 chunks, indiVars, failVars, retval, lastCall, exhausted,
                 calls, synSent>>

\* `if decdeg < 0.0: decdeg = 360.0 + decdeg`
DegreesIn360(decdeg) ==
  IF FloatIsNegative(decdeg) THEN FloatAdd(Float(360), decdeg) ELSE decdeg

\* 'e'/'E' after the accessor: the error reply, or the two coordinates in
\* hexadecimal, eight characters each for 'e' and the first four for 'E'.
cmd_e_reply ==
  /\ synpc = "ret"
  /\ call.cont = "e"
  /\ IF retval = "None"
     THEN /\ Complete(mark, i, reply_error, ops)
          /\ UNCHANGED seen
     ELSE LET radeg  == FloatDiv(FloatMul(eqCoord.ra, Float(360)), Float(24))
              decdeg == DegreesIn360(eqCoord.dec)
              rahex  == CoordHex(radeg)
              dechex == CoordHex(decdeg)
          IN /\ seen' = <<eqCoord.ra, eqCoord.dec>>
             /\ Complete(mark, i,
                         IF mark.cmd = ord("e")
                         THEN rahex \o <<ord(",")>> \o dechex \o <<ord("#")>>
                         ELSE PySlice(rahex, 0, 4) \o <<ord(",")>>
                                \o PySlice(dechex, 0, 4) \o <<ord("#")>>,
                         ops)
  /\ UNCHANGED <<stelVars, valVars, exc, written, replies, loopVars, buf, chunks, indiVars,
                 failVars, callVars, synSent>>

(***************************************************************************)
(* The SynScan bridge: 'P', the slew in one direction.                     *)
(***************************************************************************)
\* pmotionname: "TELESCOPE_MOTION_WE" if data[1] == 16, else
\* "TELESCOPE_MOTION_NS"
PMotionName(data) ==
  IF data[2] = 16 THEN "TELESCOPE_MOTION_WE" ELSE "TELESCOPE_MOTION_NS"

\* prateswitches[name] after `for p in prate`: the index of the last switch
\* of that name, -1 standing for None.
PRateSwitch(names, name) ==
  LET at == {k \in 0..(Len(names) - 1) : names[k + 1] = name}
  IN IF at = {} THEN -1 ELSE CHOOSE k \in at : \A j \in at : j <= k

\* The name the rate code selects, "" when it selects none.
RateTier(rate) ==
  IF rate = 1 THEN "SLEW_GUIDE"
  ELSE IF 2 <= rate /\ rate <= 4 THEN "SLEW_CENTERING"
  ELSE IF 5 <= rate /\ rate <= 7 THEN "SLEW_FIND"
  ELSE IF 8 <= rate /\ rate <= 9 THEN "SLEW_MAX"
  ELSE ""

\* (mutant of PRateSet: the default is the first switch)
PRateSet_first(names, rate) ==
  IF PRateSwitch(names, RateTier(rate)) >= 0
  THEN PRateSwitch(names, RateTier(rate))
  ELSE 0

\* prateset: prate[len(prate) - 1], or the switch the rate code names when
\* the property has it (a switch object being true).
PRateSet(names, rate) ==
  IF PRateSwitch(names, RateTier(rate)) >= 0
  THEN PRateSwitch(names, RateTier(rate))
  ELSE Len(names) - 1

\* cmd == ord("P"): data = buf[i : i + 7], i += 7; data[0] and data[1] raise
\* IndexError past the end of data; then pmotion =
\* getSwitchWithRetry(pmotionname).
cmd_P ==
  /\ Connected(ord("P"))
  /\ LET data == PySlice(buf, i + 1, i + 8)
     IN IF data = <<>> \/ (data[1] = 2 /\ Len(data) < 2)
        THEN /\ Raise(Mark, i + 8, "IndexError")
             /\ UNCHANGED <<seen, call, ops, reply, lastDecode>>
        ELSE IF data[1] # 2
        THEN /\ Complete(Mark, i + 8, reply_error, 0)
             /\ UNCHANGED <<seen, call, exc>>
        ELSE /\ seen' = data
             /\ CallFrom(Mark, i + 8, "switch", PMotionName(data), "P")
             /\ ops' = 0
             /\ UNCHANGED <<exc, reply, lastDecode>>
  /\ UNCHANGED <<stelVars, valVars, written, replies, loopVars, buf, chunks, indiVars, failVars,
                 retval, lastCall, exhausted, calls, synSent>>

\* 'P' after the first accessor: the error reply; or rate = data[3] (an
\* IndexError past the end of data); for rate 0 pmotion.reset(), the
\* property is sent, and "#"; else prate =
\* getSwitchWithRetry("TELESCOPE_SLEW_RATE").
cmd_P_motion ==
  /\ synpc = "ret"
  /\ call.cont = "P"
  /\ IF retval = "None"
     THEN /\ Complete(mark, i, reply_error, ops)
          /\ UNCHANGED <<call, exc, synSent>>
     ELSE IF Len(seen) < 4
     THEN /\ Raise(mark, i, "IndexError")
          /\ UNCHANGED <<call, ops, reply, lastDecode, synSent>>
     ELSE IF seen[4] = 0
     THEN /\ synSent' = Append(synSent, [prop |-> PMotionName(seen),
                                         on |-> {}])
          /\ Complete(mark, i, <<ord("#")>>, ops + 1)
          /\ UNCHANGED <<call, exc>>
     ELSE /\ CallFrom(mark, i, "switch", "TELESCOPE_SLEW_RATE", "P_rate")
          /\ UNCHANGED <<exc, ops, reply, lastDecode, synSent>>
  /\ UNCHANGED <<stelVars, valVars, seen, written, replies, loopVars, buf, chunks, indiVars,
                 failVars, retval, lastCall, exhausted, calls>>

\* 'P' after the second accessor: the error reply when prate is None or
\* empty; else every switch of prate is set OFF and prateset ON, prate is
\* sent, the two switches of pmotion are set by movedir = data[2], pmotion
\* is sent, and "#".
cmd_P_rate ==
  /\ synpc = "ret"
  /\ call.cont = "P_rate"
  /\ IF retval = "None" \/ Len(slewRate) < 1
     THEN /\ Complete(mark, i, reply_error, ops)
          /\ UNCHANGED synSent
     ELSE /\ synSent' = synSent \o
               << [prop |-> "TELESCOPE_SLEW_RATE", names |-> slewRate,
                   on |-> {PRateSet(slewRate, seen[4])}],
                  [prop |-> PMotionName(seen),
                   on |-> IF seen[3] = 36 THEN {0} ELSE {1}] >>
          /\ Complete(mark, i, <<ord("#")>>, ops + 2)
  /\ UNCHANGED <<stelVars, valVars, exc, seen, written, replies, loopVars, buf, chunks, indiVars,
                 failVars, callVars>>

\* The driver defines TELESCOPE_SLEW_RATE with other switches.
SlewRateMenu ==
  { <<"SLEW_GUIDE", "SLEW_CENTERING", "SLEW_FIND", "SLEW_MAX">>,
    <<"SLEW_MAX", "SLEW_GUIDE", "8x">>,
    <<"1x", "2x", "3x">>,
    <<>> }

SlewRateDefined(names) ==
  /\ IndiEvent
  /\ names # slewRate
  /\ slewRate' = names
  /\ UNCHANGED <<stelVars, eqCoord, timeUtc, mountInfo, trackRate, exc, seen,
                 written, replies, loopVars, synpc, cmdVars, isconnected, deviceConnected, valid,
                 busy, failVars, callVars, synSent>>

\* The chunks with a 'P': rate mode, axis, direction and rate code, and
\* three bytes of no meaning; a chunk cut short; a "#" after the command.
PFrames ==
  {<<ord("P"), mode, axis, dir, rate, 0, 0, 0>> :
     mode \in {2, 3}, axis \in {16, 17}, dir \in {36, 37},
     rate \in {0, 1, 2, 4, 5, 7, 8, 9}}
    \cup {<<ord("P")>>, <<ord("P"), 2>>, <<ord("P"), 2, 16, 36>>}

PChunks == PFrames \cup {f \o <<ord("#")>> : f \in PFrames}

NextMove ==
  \/ \E b \in PChunks : Receive(b)
  \/ cmd_Hash
  \/ cmd_P
  \/ cmd_P_motion
  \/ cmd_P_rate
  \/ LostDevice
  \/ Return
  \/ \E via \in Transports : WriteReply(via)
  \/ WaitChunk
  \/ getSwitchWithRetry
  \/ DeviceConnection
  \/ \E prop \in MoveProps : PropertyValidity(prop)
  \/ \E names \in SlewRateMenu : SlewRateDefined(names)

\* int(str, 16) accepts the bytes (a string of hexadecimal digits; the
\* signs, blanks, underscores and prefixes it also accepts do not occur in
\* the chunks), else it raises ValueError; and its value.
IsHex(str) ==
  /\ str # <<>>
  /\ \A k \in 1..Len(str) : str[k] \in (48..57) \cup (65..70) \cup (97..102)

RECURSIVE HexValue(_)
HexValue(str) ==
  IF str = <<>> THEN <<>>
  ELSE LET c == str[Len(str)]
           d == IF c <= 57 THEN c - 48 ELSE IF c <= 70 THEN c - 55 ELSE c - 87
       IN BAdd(BMulDigit(HexValue(SubSeq(str, 1, Len(str) - 1)), 16, 0),
               BOfInt(d))

\* a < b for floats a, b >= 0
FloatLess(a, b) ==
  LET e == IF a.e < b.e THEN a.e ELSE b.e
  IN BLess(BShl(a.m, a.e - e), BShl(b.m, b.e - e))

\* The coordinates of a goto or sync payload: (int(hex, 16) * 24.0) /
\* (2**bits) hours and (int(hex, 16) * 360.0) / (2**bits) degrees, with
\* `if decdeg >= 270.0: decdeg = decdeg - 360.0`.
PayloadCoords(rastr, decstr, bits) ==
  LET scale  == FloatOf(BShl(<<1>>, bits))
      rahour == FloatDiv(FloatMul(FloatOf(HexValue(rastr)), Float(24)), scale)
      decdeg == FloatDiv(FloatMul(FloatOf(HexValue(decstr)), Float(360)), scale)
  IN <<rahour,
       IF FloatLess(decdeg, Float(270)) THEN decdeg
       ELSE FloatAdd(decdeg, [neg |-> TRUE, m |-> BOfInt(360), e |-> 0])>>

\* cmd in [ord("r"), ord("R"), ord("s"), ord("S")]: the coordinates are
\* parsed, 8 + 1 + 8 bytes for 'r' and 's' and 4 + 1 + 4 for 'R' and 'S'
\* (int raises ValueError on a slice that is no number, i being as it was),
\* then p = getNumberWithRetry("EQUATORIAL_EOD_COORD").
cmd_r ==
  /\ \E c \in {ord("r"), ord("R"), ord("s"), ord("S")} : Connected(c)
  /\ LET wide   == buf[i + 1] \in {ord("r"), ord("s")}
         rastr  == PySlice(buf, i + 1, i + 1 + (IF wide THEN 8 ELSE 4))
         decstr == IF wide THEN PySlice(buf, i + 10, i + 18)
                   ELSE PySlice(buf, i + 6, i + 10)
     IN IF IsHex(rastr) /\ IsHex(decstr)
        THEN /\ seen' = PayloadCoords(rastr, decstr, IF wide THEN 32 ELSE 16)
             /\ CallFrom(Mark, i + 1 + (IF wide THEN 17 ELSE 9), "number",
                         "EQUATORIAL_EOD_COORD", "r")
             /\ ops' = 0
             /\ UNCHANGED exc
        ELSE /\ Raise(Mark, i + 1, "ValueError")
             /\ UNCHANGED <<seen, call, ops>>
  /\ UNCHANGED <<stelVars, valVars, written, replies, loopVars, buf, reply, lastDecode, chunks,
                 indiVars, failVars, retval, lastCall, exhausted, calls,
                 synSent>>

\* Goto or sync after the first accessor: the error reply, or the values of
\* the property are set and pcs = getSwitchWithRetry("ON_COORD_SET").
cmd_r_coord ==
  /\ synpc = "ret"
  /\ call.cont = "r"
  /\ IF retval = "None"
     THEN /\ Complete(mark, i, reply_error, ops)
          /\ UNCHANGED <<call, eqCoord>>
     ELSE /\ eqCoord' = [ra |-> seen[1], dec |-> seen[2]]
          /\ CallFrom(mark, i, "switch", "ON_COORD_SET", "r_set")
          /\ UNCHANGED <<reply, ops, lastDecode>>
  /\ UNCHANGED <<stelVars, slewRate, timeUtc, mountInfo, trackRate, exc, seen, written, replies, loopVars,
                 buf, chunks, indiVars, failVars, retval, lastCall, exhausted,
                 calls, synSent>>

\* (mutant of CoordSetSwitch: a sync sets the switch next to the goto's)
CoordSetSwitch_next(cmd) == IF cmd \in {ord("r"), ord("R")} THEN 0 ELSE 1

\* The switch of ON_COORD_SET set ON after pcs.reset(): pcs[0] when ingoto,
\* else pcs[2].
CoordSetSwitch(cmd) == IF cmd \in {ord("r"), ord("R")} THEN 0 ELSE 2

\* (mutant of GotoSends: the number is sent before the switch)
GotoSends_numberFirst(cmd, p) ==
  << [prop |-> "EQUATORIAL_EOD_COORD", ra |-> p.ra, dec |-> p.dec],
     [prop |-> "ON_COORD_SET", on |-> {CoordSetSwitch(cmd)}] >>

\* indiclient.sendNewProperty(pcs) and then indiclient.sendNewProperty(p)
GotoSends(cmd, p) ==
  << [prop |-> "ON_COORD_SET", on |-> {CoordSetSwitch(cmd)}],
     [prop |-> "EQUATORIAL_EOD_COORD", ra |-> p.ra, dec |-> p.dec] >>

\* Goto or sync after the second accessor: the error reply, or the switch
\* is set, ON_COORD_SET and then EQUATORIAL_EOD_COORD are sent, and "#".
cmd_r_set ==
  /\ synpc = "ret"
  /\ call.cont = "r_set"
  /\ IF retval = "None"
     THEN /\ Complete(mark, i, reply_error, ops)
          /\ UNCHANGED synSent
     ELSE /\ synSent' = synSent \o GotoSends(mark.cmd, eqCoord)
          /\ Complete(mark, i, <<ord("#")>>, ops + 2)
  /\ UNCHANGED <<stelVars, valVars, exc, seen, written, replies, loopVars, buf, chunks, indiVars,
                 failVars, callVars>>

\* The float -x of a float x.
FloatNeg(x) == [x EXCEPT !.neg = ~x.neg]

\* The coordinates the driver reports: 6 h with +45 degrees, 18 h with -30
\* degrees, and 0 h with a declination just below the equator, -2^-45
\* degrees.
SynCoordMenu ==
  { [ra |-> Float(6), dec |-> Float(45)],
    [ra |-> Float(18), dec |-> FloatNeg(Float(30))],
    [ra |-> Float(0), dec |-> [neg |-> TRUE, m |-> <<1>>, e |-> -45]] }

\* EQUATORIAL_EOD_COORD is updated by the driver.
CoordUpdate(v) ==
  /\ IndiEvent
  /\ v # eqCoord
  /\ eqCoord' = v
  /\ UNCHANGED <<stelVars, slewRate, timeUtc, mountInfo, trackRate, exc, seen, written, replies, loopVars,
                 synpc, cmdVars, isconnected, deviceConnected, valid, busy,
                 failVars, callVars, synSent>>

\* The bytes a command takes after its opcode: buf[i] of 'K' and 'T',
\* buf[i:i+8] of 'H' and 'W', buf[i:i+7] of 'P', the hexadecimal coordinates
\* of 'r', 's' (i += 17) and 'R', 'S' (i += 9).
PayloadLen(c) ==
  CASE c \in {ord("K"), ord("T")} -> 1
    [] c \in {ord("H"), ord("W")} -> 8
    [] c = ord("P") -> 7
    [] c \in {ord("r"), ord("s")} -> 17
    [] c \in {ord("R"), ord("S")} -> 9
    [] OTHER -> 0

\* The commands of the chunks given to process_command when the commands
\* with a payload or a property value are looked at: whole commands, and
\* commands cut short by the end of the chunk.
TimePayload(offset) == <<12, 0, 0, 6, 1, 24, offset, 0>>

\* "40000000,20000000", "C0000000,E0000000" and "4000,2000"
Coords32 == <<52, 48, 48, 48, 48, 48, 48, 48, 44, 50, 48, 48, 48, 48, 48, 48, 48>>
Coords32South == <<67, 48, 48, 48, 48, 48, 48, 48, 44, 69, 48, 48, 48, 48, 48, 48, 48>>
Coords16 == <<52, 48, 48, 48, 44, 50, 48, 48, 48>>

CmdMenu ==
  { <<ord("#")>>, <<ord("V")>>, <<ord("m")>>, <<ord("h")>>,
    <<ord("e")>>, <<ord("E")>>,
    <<ord("r")>> \o Coords32, <<ord("s")>> \o Coords32South,
    <<ord("R")>> \o Coords16, <<ord("S")>> \o Coords16,
    <<ord("r"), 52, 48, 48, 48>>,
    <<ord("T")>>, <<ord("T"), ord("0")>>, <<ord("T"), ord("2")>>,
    <<ord("H")>> \o TimePayload(2), <<ord("H")>> \o TimePayload(251),
    <<ord("H"), 12, 0, 0>> }
CmdChunks == UNION {{Flatten(f) : f \in [1..n -> CmdMenu]} : n \in 1..MaxCmds}

NextCmd ==
  \/ \E b \in CmdChunks : Receive(b)
  \/ cmd_Hash
  \/ cmd_V
  \/ cmd_m
  \/ cmd_m_reply
  \/ cmd_h
  \/ cmd_h_reply
  \/ cmd_e
  \/ cmd_e_reply
  \/ cmd_r
  \/ cmd_r_coord
  \/ cmd_r_set
  \/ cmd_T
  \/ cmd_T_set
  \/ cmd_H
  \/ cmd_H_set
  \/ LostDevice
  \/ Return
  \/ \E via \in Transports : WriteReply(via)
  \/ WaitChunk
  \/ getNumberWithRetry
  \/ getSwitchWithRetry
  \/ getTextWithRetry
  \/ DeviceConnection
  \/ \E prop \in CmdProps : PropertyValidity(prop)
  \/ \E on \in SUBSET {0} : TrackRateUpdate(on)
  \/ \E name \in {"EQ6", "HEQ5"} : MountInfoUpdate(name)
  \/ \E o \in OffsetMenu : TimeUpdate(o)
  \/ \E v \in SynCoordMenu : CoordUpdate(v)

NextConv ==
  \/ ConvDecode
  \/ ConvEncode

NextBytes ==
  \/ BytesEncode
  \/ BytesDecode

NextRetry ==
  \/ \E prop \in NumberProps : CallAccessor("number", prop)
  \/ \E prop \in SwitchProps : CallAccessor("switch", prop)
  \/ \E prop \in TextProps : CallAccessor("text", prop)
  \/ getNumberWithRetry
  \/ getSwitchWithRetry
  \/ getTextWithRetry
  \/ AccessorReturn
  \/ \E prop \in Props : PropertyValidity(prop)

vars == <<stelVars, synVars>>

Init == InitStel /\ InitSyn /\ conv = NoConv

Spec == Init /\ [][NextStel]_vars
SpecIndi == Init /\ [][NextIndi]_vars
SpecSkip == Init /\ [][NextSkip]_vars
SpecWait == Init /\ [][NextWait]_vars
SpecSyn == Init /\ [][NextSyn]_vars
SpecCmd == Init /\ [][NextCmd]_vars
SpecMove == Init /\ [][NextMove]_vars
\* The main loop of the SynScan bridge: the bridge takes a step whenever one
\* is possible; its peers write when they like.
SpecLoop == Init /\ [][NextLoop]_vars /\ WF_vars(BridgeStep)
\* The SynScan bridge from its first statement: no server connection, no
\* device, no property yet.  The driver answers a request it has received.
StartInit == InitStel /\ InitSynAt("connectServer", FALSE, FALSE, {}) /\ conv = NoConv

SpecStart == StartInit /\ [][NextStart]_vars /\ WF_vars(DriverConnects)

\* The statements of one iteration from `if isIndiTelescopeConnected:` to
\* the end of the goto processing: none of them waits for anything.
GotoPath == IfTelescope \/ BroadcastLoad \/ BroadcastSend \/ GotoStep

\* The Stellarium bridge with one client; its main thread goes on from the
\* telescope test to the goto processing.
SpecGoto == Init /\ [][NextGoto]_vars /\ WF_vars(GotoPath)

SpecShort == Init /\ [][NextShort]_vars

\* The SynScan bridge at its main loop with an INDI state that stays as it
\* is: the server connected or not, the device connected or not.
ConcatInit ==
  /\ InitStel
  /\ \E server, dev \in BOOLEAN :
       InitSynAt("select", server, dev, Props \cup CmdProps \cup MoveProps)
  /\ conv = NoConv

SpecConcat == ConcatInit /\ [][NextConcat]_vars

\* Both bridges as constructed, with a word or a coordinate to convert.
ConvInit == InitStel /\ InitSyn /\ InitConv

SpecConv == ConvInit /\ [][NextConv]_vars
\* Both bridges as constructed, with an int to convert to bytes.
BytesInit == InitStel /\ InitSyn /\ InitBytes

SpecBytes == BytesInit /\ [][NextBytes]_vars

SpecRetry == Init /\ [][NextRetry]_vars

(***************************************************************************)
(* Claims about the Stellarium bridge.                                     *)
(***************************************************************************)
\* The goto requests sent to INDI, in the order of sending.
SentGotos == SelectSeq(indiSent, LAMBDA e : e.prop = "EQUATORIAL_EOD_COORD")

\* C1: datareceived interprets a frame (appends its goto request, consumes
\* its bytes) only when all the bytes of the frame were received on the
\* connection, and the unread bytes stay at the head of the buffer: a
\* connection never has consumed more bytes than it received, never has
\* decoded more 20-byte goto frames than it received, and readbuf[0:recv] is
\* the unconsumed tail of what it received.
C1_NoFrameBeforeItsBytes ==
  \A c \in DOMAIN stelClients :
    LET cl == stelClients[c] IN
      /\ cl.recv >= 0
      /\ 20 * decoded[c] <= Len(rcvd[c])
      /\ PySlice(cl.readbuf, 0, cl.recv)
           = PyFrom(rcvd[c], Len(rcvd[c]) - cl.recv)

\* C2: each iteration of the main loop sends at most one goto request, and
\* the requests are sent in the order in which they were queued: the
\* requests sent followed by the requests still queued are the requests ever
\* queued, and no two requests are sent in the same iteration.
C2_OneGotoPerIterationFifo ==
  /\ [k \in 1..Len(SentGotos) |-> SentGotos[k].value] \o gotoQueue
       = [k \in 1..Len(enqueued) |-> enqueued[k].goto]
  /\ \A j, k \in 1..Len(SentGotos) :
       j < k => SentGotos[j].tick < SentGotos[k].tick

\* Two different requests were queued, the first one was sent in a later
\* iteration and the second one is still queued.
C2_Witness ==
  /\ Len(enqueued) = 2
  /\ enqueued[1].goto # enqueued[2].goto
  /\ Len(SentGotos) = 1
  /\ SentGotos[1].tick > enqueued[2].tick
  /\ gotoQueue = <<enqueued[2].goto>>

\* C6: once SIGHUP or SIGQUIT was delivered, the flag the main loop tests is
\* true.
C6_SignalSetsKilled == signalled => killed

\* C7: a read of zero bytes, a send of no byte or an error pending on a
\* client's socket removes that client from stelClients in the same
\* iteration, leaves the other clients and the goto queue as they are, and
\* the loop goes on.
C7_FailedClientRemovedAlone ==
  [][ /\ (lastIO' # lastIO /\ lastIO'.n <= 0) =>
           /\ lastIO'.sock \notin DOMAIN stelClients'
           /\ \A d \in DOMAIN stelClients \ {lastIO'.sock} :
                d \in DOMAIN stelClients' /\ stelClients'[d] = stelClients[d]
           /\ gotoQueue' = gotoQueue
           /\ pc' = "io"
      /\ (pc = "io" /\ pc' = "while") =>
           \A c \in DOMAIN stelClients' : ~sockError[c]
    ]_vars

\* C8: the (RA, Dec) pair of a coordinate frame is the pair of one
\* EQUATORIAL_EOD_COORD update (or the initial pair).
C8_NoTornCoordinates == lastCoords \in updates

\* C9: for every client, the bytes sent, then the unsent bytes of writebuf,
\* then the queued frames, are the frames handed to sendMsg in order, and
\* tosend is the number of unsent bytes of the current frame.
C9_BytesSentInOrder ==
  \A c \in DOMAIN stelClients :
    LET cl == stelClients[c] IN
      /\ wire[c] \o PySlice(cl.writebuf, 0, cl.tosend) \o Flatten(cl.msgq)
           = handed[c]
      /\ cl.tosend >= 0
      /\ cl.tosend <= EqMsgLen
      /\ (Len(wire[c]) + cl.tosend) % EqMsgLen = 0

\* A frame is partly sent and a second frame waits behind it.
C9_Witness ==
  \E c \in DOMAIN stelClients :
    /\ Len(wire[c]) = PartialSend
    /\ stelClients[c].tosend = EqMsgLen - PartialSend
    /\ Len(stelClients[c].msgq) = 1

\* C10 as stated: a client never has a frame queued behind the frame it is
\* sending.
C10_AtMostOneFramePending ==
  \A c \in DOMAIN stelClients : stelClients[c].msgq = <<>>

\* C10 amended: every frame handed to sendMsg is kept: it becomes the
\* current frame when nothing is left to send, and is appended to msgq, after
\* the frames already there, otherwise.
C10_FrameQueuedWhenBusy ==
  [][ \A c \in DOMAIN stelClients :
        handed'[c] # handed[c] =>
          LET cl == stelClients[c]
              msg == PyFrom(handed'[c], Len(handed[c]))
          IN /\ c \in DOMAIN stelClients'
             /\ IF cl.tosend = 0
                THEN /\ stelClients'[c].tosend = Len(msg)
                     /\ PySlice(stelClients'[c].writebuf, 0, Len(msg)) = msg
                     /\ stelClients'[c].msgq = cl.msgq
                ELSE /\ stelClients'[c].tosend = cl.tosend
                     /\ stelClients'[c].writebuf = cl.writebuf
                     /\ stelClients'[c].msgq = Append(cl.msgq, msg)
    ]_vars

\* A client with an unsent frame has a second frame queued.
C10_Witness ==
  \E c \in DOMAIN stelClients :
    /\ stelClients[c].tosend > 0
    /\ Len(stelClients[c].msgq) >= 1

(***************************************************************************)
(* Claims about the SynScan bridge.                                        *)
(***************************************************************************)
\* C3: with the device connected, a byte that is no opcode appends exactly
\* one '#' to the reply and advances the decoder by exactly one byte.
C3_UnknownOpcodeOneByte ==
  (lastDecode.cmd # -1 /\ lastDecode.cmd \notin OpcodeTable /\ lastDecode.up) =>
    /\ lastDecode.appended = <<ord("#")>>
    /\ lastDecode.to = lastDecode.from + 1

\* The failed set of an accessor, by the accessor's kind.
Failures(kind) ==
  CASE kind = "number" -> numberFailures
    [] kind = "switch" -> switchFailures
    [] kind = "text" -> textFailures
    [] OTHER -> {}

\* C4: once a call for a name has failed on all 5 attempts, a later call that
\* finds the property invalid returns None after one attempt and no delay,
\* and a later call that finds it valid returns it and takes the name out of
\* the failed set, so that the next failing call makes 5 attempts with 5
\* delays again; the failed sets hold exactly the names whose last full call
\* failed 5 times with no valid fetch since.
C4_FailFastUntilSuccess ==
  /\ \A kind \in {"number", "switch", "text"} :
       Failures(kind) = {prop \in Props : <<kind, prop>> \in exhausted}
  /\ lastCall.kind # "none" =>
       /\ (lastCall.was /\ lastCall.first = "invalid") =>
            /\ lastCall.result = "None"
            /\ lastCall.gets = 1
            /\ lastCall.sleeps = 0
            /\ lastCall.prop \in Failures(lastCall.kind)
       /\ (lastCall.was /\ lastCall.first = "valid") =>
            /\ lastCall.result = "p"
            /\ lastCall.gets = 1
            /\ lastCall.prop \notin Failures(lastCall.kind)
       /\ (~lastCall.was /\ lastCall.result = "None") =>
            /\ lastCall.gets = ntry
            /\ lastCall.sleeps = ntry
            /\ lastCall.prop \in Failures(lastCall.kind)

\* A call for a name that had failed 5 times found the property still
\* invalid and returned None at once.
C4_Witness ==
  /\ lastCall.was
  /\ lastCall.first = "invalid"
  /\ lastCall.result = "None"
  /\ lastCall.gets = 1
  /\ lastCall.prop \in Failures(lastCall.kind)

C11_NeverRaises == synpc # "raised"

\* C12: a command whose retry accessor returned None appends exactly one
\* error token "#", sends nothing to INDI, has consumed exactly its payload
\* bytes, and decoding goes on with the next command.
C12_NoneGivesOneError ==
  lastDecode.none =>
    /\ lastDecode.appended = reply_error
    /\ lastDecode.to = lastDecode.from + 1 + PayloadLen(lastDecode.cmd)
    /\ (mark.at = lastDecode.from /\ mark.cmd = lastDecode.cmd) =>
         /\ Len(synSent) = mark.sent
         /\ synpc \in {"while", "returned"}

\* C13: with the device connected, the bytes a command of the opcode table
\* appends to the reply end with "#" (the no-op byte 0x00, which has no
\* reply, aside); 'V' is one of these commands.
C13_ReplyEndsWithHash ==
  (/\ lastDecode.cmd \in OpcodeTable \ {ord("NUL")}
   /\ lastDecode.up) =>
    /\ lastDecode.appended # <<>>
    /\ lastDecode.appended[Len(lastDecode.appended)] = ord("#")

\* C14: for the same chunk and the same INDI state, the bytes written back
\* on the virtual serial port equal the bytes sent back on a TCP
\* connection: what was written for a reply is what the other transport
\* writes for it.
C14_SameBytesOnBothTransports ==
  written.via # "none" =>
    /\ written.bytes = SerialBytes(reply)
    /\ written.bytes = TcpBytes(reply)

\* The hour offset a payload byte carries when offsets west of UTC are
\* wrapped to an unsigned byte.
SignedByte(b) == IF b >= 128 THEN b - 256 ELSE b

\* C15: 'H' with local time t and hour offset o in the 7th payload byte
\* sends TIME_UTC with element 0 the time t minus o hours and element 1 the
\* offset o.
C15_TimeWritten ==
  (/\ lastDecode.cmd = ord("H")
   /\ ~lastDecode.none
   /\ lastDecode.up
   /\ mark.at = lastDecode.from
   /\ mark.cmd = ord("H")) =>
    LET t == <<seen[6] + 2000, seen[4], seen[5], seen[1], seen[2], seen[3]>>
        o == SignedByte(seen[7])
    IN /\ Len(synSent) = mark.sent + 1
       /\ synSent[Len(synSent)] =
            [prop |-> "TIME_UTC", utc |-> AddHours(t, 0 - o), offset |-> o]

\* The example of C15: 2024-06-01 12:00:00 with offset +2 has been written
\* as 2024-06-01T10:00:00.
C15_EastExample ==
  /\ lastDecode.cmd = ord("H")
  /\ seen = TimePayload(2)
  /\ synSent # <<>>
  /\ synSent[Len(synSent)] =
       [prop |-> "TIME_UTC", utc |-> <<2024, 6, 1, 10, 0, 0>>, offset |-> 2]

\* C16: 'h' with TIME_UTC holding the time u and an hour offset o in -12..14
\* is answered with eight bytes and "#": hour, minute, second, month, day,
\* year - 2000 of u plus o hours, then o mod 256, then 0.
C16_TimeReply ==
  (/\ mark.cmd = ord("h")
   /\ mark.up
   /\ Len(seen) = 2
   /\ seen[2] \in -12..14
   /\ synpc \in {"while", "returned", "wrote", "raised"}
   /\ ~(lastDecode.none /\ lastDecode.from = mark.at)) =>
    LET t == AddHours(seen[1], seen[2])
    IN /\ synpc # "raised"
       /\ lastDecode.cmd = ord("h")
       /\ lastDecode.appended =
            <<t[4], t[5], t[6], t[2], t[3], t[1] - 2000, seen[2] % 256, 0,
              ord("#")>>

(***************************************************************************)
(* The coordinates of the Stellarium bridge.                               *)
(***************************************************************************)

\* The 32-bit integer after w.
Succ32(w) ==
  IF w.lo < 65535 THEN [hi |-> w.hi, lo |-> w.lo + 1]
  ELSE [hi |-> (w.hi + 1) % 65536, lo |-> 0]

\* Two 32-bit integers differ by at most 1 modulo 2^32.
Near32(a, b) == a = b \/ a = Succ32(b) \/ b = Succ32(a)

\* C17: the RA and Dec integers of a goto frame, decoded by datareceived
\* and encoded again by sendEqCoords, come back within 1 (modulo 2^32).
C17_RoundTripWithinOne ==
  conv.step = "encoded" =>
    /\ Near32(from_le32(conv.rabytes), conv.ra)
    /\ Near32(from_le32(conv.decbytes), conv.dec)

\* A frame with a declination above 2^31, folded to a negative angle, has
\* made the round trip.
C17_Witness ==
  /\ conv.step = "encoded"
  /\ conv.dec = [hi |-> 65535, lo |-> 65535]
  /\ conv.targetdec.neg
  /\ conv.decbytes = <<255, 255, 255, 255>>

\* The float a has the value (-1)^neg * n * 2^e, n an int.
FloatIs(a, neg, n, e) ==
  LET low == IF a.e < e THEN a.e ELSE e
  IN /\ BShl(a.m, a.e - low) = BShl(n, e - low)
     /\ n # <<>> => a.neg = neg

\* C18: datareceived maps the Dec integer y to -(2^32 - y) * 360 / 2^32, a
\* negative value, when y > 2^31, and to y * 360 / 2^32 when y <= 2^31.
C18_DecFold ==
  conv.step \in {"decoded", "encoded"} =>
    LET y    == IntOfLimbs(conv.dec)
        half == BShl(<<1>>, 31)
    IN IF BLess(half, y)
       THEN /\ FloatIs(conv.targetdec, TRUE,
                       BMul(BSub(BShl(<<1>>, 32), y), BOfInt(360)), -32)
            /\ FloatIsNegative(conv.targetdec)
       ELSE FloatIs(conv.targetdec, FALSE, BMul(y, BOfInt(360)), -32)

\* The frame with the Dec integer 2^31 + 1 has been decoded to a negative
\* declination.
C18_Witness ==
  /\ conv.step = "decoded"
  /\ conv.dec = [hi |-> 32768, lo |-> 1]
  /\ FloatIsNegative(conv.targetdec)

\* The integer of the claimed reply for an angle of (-1)^neg * m * 2^e
\* degrees, a negative angle being taken 360 degrees up:
\* int(angle * 2^24 / 360), with no rounding before the int.
ClaimedInt(a) ==
  LET full == BShl(BOfInt(360), 0 - a.e)
      n    == IF FloatIsNegative(a) THEN BSub(full, a.m) ELSE a.m
  IN BToInt(BDivMod(BShr(BShl(n, 24), 0 - a.e), 360).q)

\* The claimed characters of one coordinate: six upper-case digits, then "00".
ClaimedHex(a) == upper(zfill(hex(ClaimedInt(a)), 6)) \o <<48, 48>>

\* C19: 'e' is answered with RAHEX "," DECHEX "#", each HEX being
\* int(degrees * 2^24 / 360) as exactly six upper-case hexadecimal digits
\* and "00", RA in degrees and a negative Dec taken up by 360; 'E' with the
\* first four digits of each.
C19_HexReply ==
  (/\ lastDecode.cmd \in {ord("e"), ord("E")}
   /\ ~lastDecode.none
   /\ lastDecode.up
   /\ mark.at = lastDecode.from
   /\ Len(seen) = 2) =>
    LET radeg == [seen[1] EXCEPT !.m = BMul(@, BOfInt(15))]
        ra  == ClaimedHex(radeg)
        dec == ClaimedHex(seen[2])
    IN /\ Len(ra) = 8
       /\ Len(dec) = 8
       /\ lastDecode.appended =
            IF lastDecode.cmd = ord("e")
            THEN ra \o <<ord(",")>> \o dec \o <<ord("#")>>
            ELSE SubSeq(ra, 1, 4) \o <<ord(",")>> \o SubSeq(dec, 1, 4)
                   \o <<ord("#")>>

\* The example of C19: 6 h and +45 degrees have been answered with
\* "40000000,20000000#".
C19_Example ==
  /\ lastDecode.cmd = ord("e")
  /\ seen = <<Float(6), Float(45)>>
  /\ lastDecode.appended = <<52, 48, 48, 48, 48, 48, 48, 48, 44,
                             50, 48, 48, 48, 48, 48, 48, 48, 35>>

\* The properties a command has sent so far.
SentBy(m) == SubSeq(synSent, m.sent + 1, Len(synSent))

\* C20: 'r'/'R' send ON_COORD_SET with switch 0 ON and every other switch
\* OFF, 's'/'S' with switch 2 ON and every other switch OFF; 'r'/'s' take
\* exactly 17 payload bytes and 'R'/'S' exactly 9, and the reply is "#".
C20_GotoAndSync ==
  (/\ lastDecode.cmd \in {ord("r"), ord("R"), ord("s"), ord("S")}
   /\ ~lastDecode.none
   /\ lastDecode.up
   /\ mark.at = lastDecode.from
   /\ mark.cmd = lastDecode.cmd) =>
    LET coordset == SelectSeq(SentBy(mark), LAMBDA p : p.prop = "ON_COORD_SET")
    IN /\ Len(coordset) = 1
       /\ Head(coordset).on =
            IF lastDecode.cmd \in {ord("r"), ord("R")} THEN {0} ELSE {2}
       /\ lastDecode.to = lastDecode.from + 1 +
            (IF lastDecode.cmd \in {ord("r"), ord("s")} THEN 17 ELSE 9)
       /\ lastDecode.appended = <<ord("#")>>

\* A 32-bit sync has been decoded and its properties sent.
C20_Witness ==
  /\ lastDecode.cmd = ord("s")
  /\ ~lastDecode.none
  /\ lastDecode.to = 18
  /\ Len(synSent) = 2
  /\ synSent[1] = [prop |-> "ON_COORD_SET", on |-> {2}]

\* The goto and sync commands.
GotoCmds == {ord("r"), ord("R"), ord("s"), ord("S")}

\* The position in what command m has sent of the first property named n,
\* 0 when there is none.
SentAt(m, n) ==
  LET at == {k \in 1..Len(SentBy(m)) : Head(SubSeq(SentBy(m), k, k)).prop = n}
  IN IF at = {} THEN 0 ELSE CHOOSE k \in at : \A j \in at : k <= j

\* C21 (as claimed): for 'r'/'R'/'s'/'S' the bridge sends the write of
\* EQUATORIAL_EOD_COORD to INDI first and ON_COORD_SET after it.
C21_NumberThenSwitch ==
  (mark.cmd \in GotoCmds /\ SentAt(mark, "ON_COORD_SET") > 0) =>
    /\ SentAt(mark, "EQUATORIAL_EOD_COORD") > 0
    /\ SentAt(mark, "EQUATORIAL_EOD_COORD") < SentAt(mark, "ON_COORD_SET")

\* C21 (amended): for 'r'/'R'/'s'/'S' the bridge sends ON_COORD_SET to INDI
\* first and the write of EQUATORIAL_EOD_COORD right after it.
C21_SwitchThenNumber ==
  (mark.cmd \in GotoCmds /\ SentBy(mark) # <<>>) =>
    /\ Len(SentBy(mark)) = 2
    /\ SentAt(mark, "ON_COORD_SET") = 1
    /\ SentAt(mark, "EQUATORIAL_EOD_COORD") = 2

\* A 16-bit goto has sent both of its properties.
C21_Witness ==
  /\ mark.cmd = ord("R")
  /\ Len(SentBy(mark)) = 2
  /\ SentAt(mark, "EQUATORIAL_EOD_COORD") = 2

\* A step of the bridge inside 'L' or 'M' after an accessor has returned.
InGotoStep == cmd_L_reply \/ cmd_M_state \/ cmd_M_abort

\* C22: 'M' sends TELESCOPE_ABORT_MOTION ON only if EQUATORIAL_EOD_COORD is
\* busy when 'M' looks at it and sends nothing otherwise; 'L' replies "1#"
\* exactly when the property is busy and "0#" otherwise; and neither waits
\* for a goto to complete: whatever the state of the property, the step
\* after the accessor can be taken and it ends the command or goes on to
\* the abort switch.
C22_SampleOnly ==
  /\ [][(synpc = "ret" /\ call.cont = "L" /\ retval # "None"
         /\ synpc' # synpc) =>
          /\ lastDecode'.appended = IF busy THEN <<ord("1"), ord("#")>>
                                    ELSE <<ord("0"), ord("#")>>
          /\ synpc' = "while"
          /\ synSent' = synSent]_vars
  /\ [][(synpc = "ret" /\ call.cont = "M" /\ retval # "None"
         /\ synpc' # synpc) =>
          IF busy
          THEN call'.cont = "M_abort" /\ synpc' = "retry" /\ synSent' = synSent
          ELSE /\ lastDecode'.appended = <<ord("#")>>
               /\ synpc' = "while"
               /\ synSent' = synSent]_vars
  /\ [][(mark.cmd = ord("M") /\ synSent' # synSent /\ synSent' # <<>>) =>
          /\ call.cont = "M_abort"
          /\ synSent' = Append(synSent, [prop |-> "TELESCOPE_ABORT_MOTION",
                                         on |-> {0}])
          /\ lastDecode'.appended = <<ord("#")>>]_vars
  /\ []((synpc = "ret" /\ call.cont \in {"L", "M", "M_abort"}) =>
          ENABLED InGotoStep)

\* 'M' has sent the abort switch, and the property is no longer busy.
C22_Witness ==
  /\ lastDecode.cmd = ord("M")
  /\ lastDecode.appended = <<ord("#")>>
  /\ Len(SentBy(mark)) = 1
  /\ SentBy(mark)[1].prop = "TELESCOPE_ABORT_MOTION"
  /\ ~busy

\* The seven bytes after the 'P' that was decoded last.
PData == PySlice(buf, lastDecode.from + 1, lastDecode.from + 8)

\* The switch of names the rate code stands for: the one of the name of its
\* tier, the last switch when the property has none of that name.
IsTierSwitch(names, rate, k) ==
  /\ k \in 0..(Len(names) - 1)
  /\ IF \E j \in 1..Len(names) : names[j] = RateTier(rate)
     THEN names[k + 1] = RateTier(rate)
     ELSE k = Len(names) - 1

\* What a 'P' of fixed rate has sent when both of its properties were there.
PSentAsClaimed(d, sent) ==
  IF d[4] = 0
  THEN sent = <<[prop |-> PMotionName(d), on |-> {}]>>
  ELSE \/ sent = <<>>
       \/ /\ Len(sent) = 2
          /\ Head(sent).prop = "TELESCOPE_SLEW_RATE"
          /\ Head(sent).names # <<>>
          /\ \E k \in 0..(Len(Head(sent).names) - 1) :
               /\ Head(sent).on = {k}
               /\ d[4] \in 1..9 => IsTierSwitch(Head(sent).names, d[4], k)
          /\ Head(Tail(sent)) =
               [prop |-> PMotionName(d),
                on |-> IF d[3] = 36 THEN {0} ELSE {1}]

\* C23: a 'P' of fixed rate with rate code 1..9 sends TELESCOPE_SLEW_RATE
\* with exactly one switch ON (SLEW_GUIDE for 1, SLEW_CENTERING for 2-4,
\* SLEW_FIND for 5-7, SLEW_MAX for 8-9, the last switch when that name is
\* absent) and then the motion property, with switch 0 ON and 1 OFF for
\* direction 36 and the reverse for another direction; rate code 0 sends the
\* motion property with every switch OFF and no slew rate; and the command
\* takes exactly 7 payload bytes.
C23_Slew ==
  /\ []((lastDecode.cmd = ord("P") /\ lastDecode.up) =>
          lastDecode.to = lastDecode.from + 8)
  /\ []((/\ lastDecode.cmd = ord("P")
         /\ mark.at = lastDecode.from
         /\ mark.cmd = lastDecode.cmd
         /\ Len(PData) = 7
         /\ PData[1] = 2
         /\ lastDecode.up
         /\ ~lastDecode.none) =>
          /\ PSentAsClaimed(PData, SentBy(mark))
          /\ lastDecode.appended = <<ord("#")>>)
  /\ [][(/\ synpc = "ret"
         /\ call.cont = "P_rate"
         /\ retval # "None"
         /\ slewRate # <<>>
         /\ synpc' # synpc) =>
          /\ Len(synSent') = Len(synSent) + 2
          /\ synpc' = "while"]_vars

\* A 'P' with rate code 8 was decoded when the slew rates had no SLEW_MAX:
\* the last switch is ON.
C23_Witness ==
  /\ lastDecode.cmd = ord("P")
  /\ Len(PData) = 7
  /\ PData[4] = 8
  /\ Len(SentBy(mark)) = 2
  /\ Head(SentBy(mark)).names = <<"1x", "2x", "3x">>
  /\ Head(SentBy(mark)).on = {2}

\* C24: 'T' with mode '2' or '3' while the first track-rate switch is OFF
\* sends TELESCOPE_TRACK_RATE with the first switch ON and all others OFF;
\* with another mode while some switch is ON it sends the property with all
\* switches OFF; else it sends nothing; in every case one payload byte is
\* taken and the reply is "#".
C24_TrackMode ==
  [][(/\ synpc = "ret"
      /\ call.cont = "T"
      /\ retval # "None"
      /\ synpc' # synpc) =>
       /\ synpc' = "while"
       /\ lastDecode'.cmd = ord("T")
       /\ lastDecode'.appended = <<ord("#")>>
       /\ lastDecode'.to = lastDecode'.from + 2
       /\ synSent' =
            IF buf[i] \in {ord("2"), ord("3")}
            THEN IF 0 \notin trackRate
                 THEN Append(synSent, [prop |-> "TELESCOPE_TRACK_RATE",
                                       on |-> {0}])
                 ELSE synSent
            ELSE IF trackRate \cap TrackSwitches # {}
                 THEN Append(synSent, [prop |-> "TELESCOPE_TRACK_RATE",
                                       on |-> {}])
                 ELSE synSent]_vars

\* C25: 'K' followed by a byte b is answered by b and "#" when the INDI
\* connection is up and by the error "#" when it is down; both take exactly
\* two bytes of the input, and the echo does not depend on the device being
\* connected.
C25_Echo ==
  [][(AtOpcode(ord("K")) /\ i + 1 < Len(buf) /\ i' # i) =>
       /\ i' = i + 2
       /\ synpc' = "while"
       /\ reply' = reply \o (IF isconnected THEN <<buf[i + 2], ord("#")>>
                             ELSE <<ord("#")>>)
       /\ synSent' = synSent]_vars

\* A byte was echoed while the device was not connected.
C25_Witness ==
  /\ lastDecode.cmd = ord("K")
  /\ ~lastDecode.up
  /\ lastDecode.from + 2 <= Len(buf)
  /\ lastDecode.to = lastDecode.from + 2
  /\ lastDecode.appended = <<buf[lastDecode.from + 2], ord("#")>>

\* The telescope state the main loop keeps.
TelescopeState ==
  <<isIndiTelescopeConnected, indiTelescopeRAJNOW, indiTelescopeDECJNOW,
    indiTelescopeTIMEUTC, indiSent>>

\* C26: a complete frame of a type other than 0 leaves the goto queue and
\* the telescope state as they are and takes exactly its declared length
\* off the buffer, so the frame after it is decoded as if it came alone: a
\* read into an empty buffer of such a frame alone, or followed by a second
\* one, appends nothing and empties the buffer; followed by a goto frame it
\* appends the request of that frame and empties the buffer.
C26_OtherTypesSkipped ==
  [][\A r \in DOMAIN stelClients :
       (/\ lastIO'.seq # lastIO.seq
        /\ lastIO'.op = "read"
        /\ lastIO'.sock = r
        /\ lastIO'.n > 0
        /\ stelClients[r].recv = 0
        /\ Len(stelClients[r].readbuf) = BufSize) =>
         LET data == SubSeq(inflight[r], 1, lastIO'.n)
         IN \A f \in OtherFrames :
              /\ (data = f \/ \E f2 \in OtherFrames : data = f \o f2) =>
                   /\ gotoQueue' = gotoQueue
                   /\ stelClients'[r].recv = 0
                   /\ TelescopeState' = TelescopeState
                   /\ pc' = "io"
              /\ \A g \in FrameMenu :
                   (data = f \o g) =>
                     /\ gotoQueue' = Append(gotoQueue, GotoOfFrame(g, 0))
                     /\ stelClients'[r].recv = 0
                     /\ TelescopeState' = TelescopeState
                     /\ pc' = "io"]_vars

\* A frame of type 256 and the goto frame after it were read together and
\* the one request queued.
C26_Witness ==
  /\ lastIO.op = "read"
  /\ lastIO.n = 26
  /\ rcvd[1] = to_le(6, 2) \o to_le(256, 2) \o <<7, 7>>
                 \o GotoFrame([hi |-> 16384, lo |-> 0], [hi |-> 8192, lo |-> 0])
  /\ Len(enqueued) = 1
  /\ stelClients[1].recv = 0

\* The float |x|.
FloatAbs(x) == [x EXCEPT !.neg = FALSE]

\* C27: every goto request datareceived appends has its right ascension in
\* [0, 24) hours and its declination in [-90, 90] degrees, whatever the
\* 20-byte frame of type 0.
C27_GotoInRange ==
  conv.step = "decoded" =>
    /\ ~FloatIsNegative(conv.targetra)
    /\ FloatLess(conv.targetra, Float(24))
    /\ ~FloatLess(Float(90), FloatAbs(conv.targetdec))

\* C28: when the main loop finds the INDI server disconnected (at the start
\* or after the server went away) it calls connectServer again every 5
\* seconds until an attempt returns true, leaves the retry loop with the
\* first attempt that succeeds, and sends neither coordinates to a client
\* nor a goto to INDI in that iteration before an attempt has succeeded.
C28_RetryUntilConnected ==
  /\ [](/\ \A k \in 1..Len(waits) : waits[k] = 5
        /\ waits # <<>> => pc = "waitServer")
  /\ [][(pc = "while" /\ ~indiServerConnected) =>
          pc' \in {"while", "waitServer", "cleanup"}]_vars
  /\ [][pc = "waitServer" =>
          /\ indiSent' = indiSent
          /\ wire' = wire
          /\ pc' = "waitServer" =>
               /\ indiServerConnected' = indiServerConnected
               /\ waits' \in {waits, Append(waits, 5)}
          /\ pc' # "waitServer" =>
               /\ pc' = "iftel"
               /\ indiServerConnected'
               /\ waits' = <<>>]_vars

\* The server went away while the loop ran, and the loop has slept twice in
\* waitServer since.
C28_Witness ==
  /\ pc = "waitServer"
  /\ ticks > 0
  /\ waits = <<5, 5>>
  /\ ~indiServerConnected

\* C29: no step of the main loop of the SynScan bridge blocks for ever:
\* also while a TCP client stays connected and sends nothing, a chunk
\* written to the virtual serial port is read at last.
C29_NothingBlocks == (serialIn > 0) ~> (serialIn = 0)

\* C30: on shutdown the Stellarium bridge disconnects all its clients
\* first, then closes the listening socket, then disconnects from the INDI
\* server.
C30_ShutdownOrder ==
  pc = "exit0" =>
    \A j, k \in 1..Len(shutdownLog) :
      /\ (shutdownLog[j] = "disconnect client"
          /\ shutdownLog[k] = "close stelSocket") => j < k
      /\ (shutdownLog[j] = "close stelSocket"
          /\ shutdownLog[k] = "disconnectServer") => j < k

C32_ReadBufferBounded ==
  \A c \in DOMAIN stelClients :
    /\ 0 <= stelClients[c].recv
    /\ stelClients[c].recv <= BufSize
    /\ Len(stelClients[c].readbuf) <= BufSize

\* The goto requests of the requests ever queued, in order.
EnqueuedGotos == [k \in 1..Len(enqueued) |-> enqueued[k].goto]

\* C33: for a stream of complete frames, the goto requests enqueued are the
\* same however the stream is split across reads (they are those of the
\* stream read at once), and the unconsumed bytes are at the start of the
\* buffer, in arrival order.
C33_SplitIndependent ==
  (/\ accepted = 1
   /\ inflight[1] = <<>>
   /\ rcvd[1] # <<>>
   /\ Len(rcvd[1]) <= BufSize
   /\ pc # "hung")
  => LET one == performRead(NewStelClient, rcvd[1])
     IN /\ EnqueuedGotos = one.gotos
        /\ 1 \in DOMAIN stelClients =>
             /\ stelClients[1].recv = one.client.recv
             /\ PySlice(stelClients[1].readbuf, 0, stelClients[1].recv)
                  = PySlice(one.client.readbuf, 0, one.client.recv)

(***************************************************************************)
(* Claims about the queue of goto requests.                                *)
(***************************************************************************)
\* C34: a goto request that was queued is sent to INDI at most once: it is
\* in the queue or among the requests sent, never both and never twice, it
\* leaves the queue only from the front in the step that sends it, and
\* nothing is put back in front of the queue.  And an iteration that finds
\* the telescope connected and the queue not empty sends one request, so
\* the requests are all sent while the loop goes on with the telescope
\* connected.
C34_SentOnce ==
  /\ [](Len(SentGotos) + Len(gotoQueue) = Len(enqueued))
  /\ [][Len(gotoQueue') < Len(gotoQueue) =>
          /\ gotoQueue' = Tail(gotoQueue)
          /\ Len(indiSent') = Len(indiSent) + 2
          /\ indiSent'[Len(indiSent')].prop = "EQUATORIAL_EOD_COORD"
          /\ indiSent'[Len(indiSent')].value = Head(gotoQueue)]_vars
  /\ [][Len(gotoQueue') >= Len(gotoQueue) =>
          /\ SubSeq(gotoQueue', 1, Len(gotoQueue)) = gotoQueue
          /\ indiSent' = indiSent]_vars
  /\ \A n \in 0..MaxNetEvents :
       (/\ pc = "iftel"
        /\ isIndiTelescopeConnected
        /\ Len(gotoQueue) > 0
        /\ Len(SentGotos) = n) ~> (Len(SentGotos) = n + 1)

\* Two requests were queued; the first one was sent and the second one is
\* still in the queue.
C34_Witness ==
  /\ Len(enqueued) = 2
  /\ Len(SentGotos) = 1
  /\ Len(gotoQueue) = 1
  /\ isIndiTelescopeConnected

(***************************************************************************)
(* Claims about one call of a retry accessor.                              *)
(***************************************************************************)
\* A pass of the loop of the running accessor.
AccessorPass == getNumberWithRetry \/ getSwitchWithRetry \/ getTextWithRetry

\* C35: a call of a retry accessor fetches at most ntry times and sleeps at
\* most ntry times; it returns the property at the first valid fetch with
\* no further fetch or sleep; it terminates (a pass is always possible, and
\* the passes made and the passes left are ntry together); and a name
\* enters the failed set only when the ntry fetches of the call have all
\* failed.
C35_BoundedRetry ==
  /\ [](synpc \in {"retry", "ret"} =>
          /\ call.gets <= ntry
          /\ call.sleeps <= ntry
          /\ call.sleeps <= call.gets)
  /\ [](synpc = "retry" =>
          /\ call.ntry > 0
          /\ call.ntry + call.gets = ntry
          /\ ENABLED AccessorPass)
  /\ [][(synpc = "retry" /\ call'.gets = call.gets + 1 /\ call.prop \in valid) =>
          /\ synpc' = "ret"
          /\ retval' = "p"
          /\ call'.sleeps = call.sleeps]_vars
  /\ [][\A kind \in {"number", "switch", "text"}, prop \in Props :
          (prop \notin Failures(kind) /\ prop \in Failures(kind)') =>
             /\ call'.kind = kind
             /\ call'.prop = prop
             /\ call'.gets = ntry
             /\ call'.sleeps = ntry
             /\ synpc' = "ret"
             /\ retval' = "None"]_vars

\* A call has returned the property at its third fetch, after two sleeps,
\* and the name is in no failed set.
C35_Witness ==
  /\ synpc = "ret"
  /\ retval = "p"
  /\ call.gets = 3
  /\ call.sleeps = 2
  /\ call.prop \notin Failures(call.kind)

(***************************************************************************)
(* Claims about the byte conversions.                                      *)
(***************************************************************************)
\* 256^k
RECURSIVE Pow256(_)
Pow256(k) == IF k = 0 THEN 1 ELSE 256 * Pow256(k - 1)

\* The sequence s in reverse order.
Reverse(s) == [k \in 1..Len(s) |-> s[Len(s) + 1 - k]]

\* C36: for every integer n, negative ones included, and every size k,
\* from_le(to_le(n, k)) = n mod 256^k, from_be(to_be(n, k)) = n mod 256^k,
\* and to_be(n, k) is to_le(n, k) with its bytes in reverse order.
C36_ByteRoundTrip ==
  /\ conv.step \in {"bytes", "back"} =>
       /\ Len(conv.le) = conv.size
       /\ conv.be = Reverse(conv.le)
  /\ conv.step = "back" =>
       /\ conv.fromle = conv.n % Pow256(conv.size)
       /\ conv.frombe = conv.n % Pow256(conv.size)

\* A negative int that does not fit in the size has made the round trip:
\* -300 in 2 bytes is 0xFED4 (65236).
C36_Witness ==
  /\ conv.step = "back"
  /\ conv.n = -300
  /\ conv.size = 2
  /\ conv.le = <<212, 254>>
  /\ conv.be = <<254, 212>>
  /\ conv.frombe = 65236

(***************************************************************************)
(* Claims about the pending frames of a Stellarium client.                 *)
(***************************************************************************)
\* C37: when performWrite has sent the last bytes of the current frame and
\* msgq is not empty, the oldest frame of msgq becomes the current frame
\* (it is at the head of writebuf and tosend is its length) and is removed
\* from msgq, and the bridge goes on.
C37_NextFrameTaken ==
  [][ \A c \in DOMAIN stelClients :
        (/\ lastIO'.seq # lastIO.seq
         /\ lastIO'.op = "write"
         /\ lastIO'.sock = c
         /\ lastIO'.n > 0
         /\ lastIO'.n = stelClients[c].tosend
         /\ stelClients[c].msgq # <<>>) =>
          LET msg == Head(stelClients[c].msgq)
          IN /\ pc' # "crashed"
             /\ c \in DOMAIN stelClients'
             /\ stelClients'[c].tosend = Len(msg)
             /\ PySlice(stelClients'[c].writebuf, 0, Len(msg)) = msg
             /\ stelClients'[c].msgq = Tail(stelClients[c].msgq)
    ]_vars

\* C38: datareceived terminates whatever the read buffer holds, a frame with
\* a length field of 0 or below 4 included.
C38_DataReceivedTerminates == pc # "hung"

(***************************************************************************)
(* Claims about the connection flags of the Stellarium bridge.             *)
(***************************************************************************)
\* C39: whenever isIndiTelescopeConnected is true, indiServerConnected is
\* true: the telescope flag is cleared when the INDI server disconnects.
C39_TelescopeImpliesServer == isIndiTelescopeConnected => indiServerConnected

(***************************************************************************)
(* Claims about process_command on a concatenation.                        *)
(***************************************************************************)
\* C40: for an INDI state that does not change and two chunks a and b of
\* complete commands, process_command(a + b) is process_command(a) followed
\* by process_command(b).
C40_Concatenation ==
  Len(replies) = 3 =>
    replies[3].reply = replies[1].reply \o replies[2].reply

====
